---- MODULE Spec2Model ----
(***************************************************************************)
(* NetPulse multi-target network monitor (src/monitor/netpulse_monitor.py). *)
(* One monitor thread per enabled target runs monitor_target; its loop     *)
(* body is split at the points where another thread can observe the        *)
(* target's dictionary: the ping, the incident/counter update, the status  *)
(* update and the end of the iteration.  The asyncio event loop runs the   *)
(* WebSocket handlers and the broadcast task; stop_monitoring joins the    *)
(* threads, writes the daily reports and prunes the database.              *)
(*   Spec, SpecStoreOk  the monitor threads                                *)
(*   SpecBroadcast      the event loop                                     *)
(*   SpecReports        stops of the engine over the rows of earlier runs  *)
(*   SpecStop           the monitor threads and a stop side by side        *)
(*   SpecSnapshot       the monitor threads and one dashboard's snapshots  *)
(*   SpecUptime         the engine between its start and its stop          *)
(*   SpecTargets        two monitor threads under fair scheduling          *)
(*   SpecRows           the rows of ping_results and the rolling window    *)
(*   SpecTail           the windows and the tail a snapshot carries        *)
(*   SpecReaders        monitors, broadcasts and a stop side by side       *)
(*   SpecAlerts         two monitor threads with the alerts on             *)
(*   SpecIsp            VisualISPMonitor of isp_monitor.py                 *)
(***************************************************************************)
EXTENDS Integers, Sequences, FiniteSets, TLC

\* ---------------------------------------------------------------- bounds
\* Total number of probes started by all monitor threads together.
MaxProbes == 3
\* Last value of the clock (datetime.now() is read as a whole tick).
MaxTime == 2
\* Largest round-trip time, in ms, the prober reports.
MaxLatency == 3
\* config['monitoring']['latency_threshold'], scaled to the latencies above.
Threshold == 1
\* config['email']['cooldown_seconds'], in clock ticks.
Cooldown == 2

\* Number of dashboard connections the WebSocket server accepts.
MaxSockets == 2
\* Clock ticks in a calendar day.
DayLength == 2
\* config['database']['retention_days'].
RetentionDays == 1
\* Number of times stop_monitoring is entered (once per signal, and once
\* from the finally of start_monitoring).
MaxStops == 2
\* Probes the monitor threads start while the engine is being stopped.
MaxStopProbes == 1
\* config['monitoring']['max_data_points'], the length of the dashboard
\* window of a target.
MaxDataPoints == 2
\* The 50 of 'list(target_data['recent_data'])[-50:]', scaled to the window
\* above.
TailLength == 1

\* Python's None for the numeric fields (timestamps, latencies, row ids).
None == -1

TargetNames == {"A", "B"}

\* The connection objects the server hands to websocket_handler: every
\* accepted connection is a new object.
Sockets == 1..MaxSockets

\* The subject prefixes monitor_target uses.
PACKET_LOSS_SUBJECT == "PACKET LOSS"
HIGH_LATENCY_SUBJECT == "HIGH LATENCY"
RECOVERED_SUBJECT == "RECOVERED"
Prefixes == {PACKET_LOSS_SUBJECT, HIGH_LATENCY_SUBJECT, RECOVERED_SUBJECT}

VARIABLES
    config,        \* the loaded configuration (read-only after load_config)
    is_running,    \* self.is_running
    now,           \* the wall clock
    targets,       \* self.targets: name -> per-target dictionary
    pc,            \* position of each monitor thread
    outcome,       \* what ping3.ping did in the running iteration
    latency,       \* monitor_target's local 'latency' of the running iteration
    status,        \* monitor_target's local 'status' of the running iteration
    incidents,     \* rows of table incidents
    incident_seq,  \* AUTOINCREMENT counter of table incidents
    smtp_calls,    \* mail transport: number of connections made to it
    delivered,     \* mail transport: <<email key, time>> of every accepted mail
    streak,        \* history: per target, the probes of its latest failure streak
    websocket_clients,     \* self.websocket_clients
    hpc,                   \* position of websocket_handler, per connection
    bpc,                   \* position of the broadcast_data task
    dashboard_data,        \* broadcast_data's local: the payload of the cycle
    disconnected_clients,  \* broadcast_data's local of the same name
    it_base,               \* the set iterator: the set when it was created
    it_seen,               \* the set iterator: the elements it has yielded
    client,                \* broadcast_data's loop variable
    ping_results,          \* rows of table ping_results
    ping_seq,              \* AUTOINCREMENT counter of table ping_results
    daily_reports,         \* rows of table daily_reports
    report_seq,            \* AUTOINCREMENT counter of table daily_reports
    spc,                   \* position of stop_monitoring
    joining,               \* stop_monitoring: the threads still to join
    report_date,           \* generate_daily_reports' local of the same name
    todo,                  \* generate_daily_reports: the targets from the
                           \* one being reported on
    report_error,          \* generate_daily_reports: the target at which
                           \* the pass raised
    deleted,               \* cleanup_old_data: its row counts, and whether
                           \* it raised
    reported,              \* history: the <<target, date>> reports this run wrote
    stops,                 \* history: the number of entries into stop_monitoring
    isp_monitor            \* the VisualISPMonitor object of isp_monitor.py, with
                           \* its mail transport

\* The state of the asyncio event loop: the server's handlers and the
\* broadcast task.
evars == <<websocket_clients, hpc, bpc, dashboard_data, disconnected_clients,
           it_base, it_seen, client>>

\* The state of the engine's stop: the tables it reports on and prunes, and
\* the position of stop_monitoring.
dvars == <<ping_results, ping_seq, daily_reports, report_seq, spc, joining,
           report_date, todo, report_error, deleted, reported, stops>>

\* The state the monitor threads work on.
mvars == <<config, now, targets, pc, outcome, latency, status, incidents,
           incident_seq, smtp_calls, delivered, streak>>

vars == <<config, is_running, now, targets, pc, outcome, latency, status,
          incidents, incident_seq, smtp_calls, delivered, streak, evars, dvars,
          isp_monitor>>

\* ------------------------------------------------------------ the prober
\* What ping3.ping does: it returns None on a timeout, False on an error,
\* raises, or returns the delay in seconds.  A delay is held as its number
\* of milliseconds ms (the delay is ms/1000 s), so delay * 1000 is ms.
NoOutcome == [kind |-> "none", ms |-> 0]

ProberOutcomes ==
    [kind : {"timeout", "error", "exception"}, ms : {0}]
      \cup [kind : {"reply"}, ms : 0..MaxLatency]

\* Python truthiness of ping3.ping's return value.
Truthy(o) == o.kind = "reply" /\ o.ms # 0

\* (Variant: 'latency * 1000 if latency is not None else None', which takes
\* the False of an error for a delay of 0.)
ping_target_not_none(o) ==
    IF o.kind \in {"exception", "timeout"} THEN None ELSE o.ms

\* ping_target: the latency in ms, or None ('latency * 1000 if latency
\* else None', and None from the except).
ping_target(o) ==
    IF o.kind = "exception" THEN None
    ELSE IF Truthy(o) THEN o.ms ELSE None

\* The three branches of monitor_target's if/elif/else.
Classify(lat, threshold) ==
    IF lat = None THEN "PACKET_LOSS"
    ELSE IF lat > threshold THEN "HIGH_LATENCY"
    ELSE "OK"

\* ----------------------------------------------------------- the config
Configs ==
    [enabled : {[n \in TargetNames |-> n = "A"]},
     latency_threshold : {Threshold},
     cooldown_seconds : {Cooldown},
     retention_days : {RetentionDays},
     max_data_points : {MaxDataPoints},
     send_alerts : BOOLEAN]

EnabledTargets(c) == {n \in TargetNames : c.enabled[n]}

\* (Variant: initialize_targets without the test of 'enabled'.)
initialize_targets_all(c) ==
    [n \in DOMAIN c.enabled |->
        [consecutive_failures |-> 0,
         total_checks |-> 0,
         last_email_sent |-> <<>>,
         first_failure_time |-> None,
         current_incident_id |-> None,
         recent_data |-> <<>>,
         avg_latency |-> [num |-> 0, den |-> 1],
         packet_loss_rate |-> [num |-> 0, den |-> 1],
         status |-> "unknown",
         last_check |-> None]]

\* (Variant: a target is shown as up before its first probe.)
initialize_targets_up(c) ==
    [n \in EnabledTargets(c) |->
        [consecutive_failures |-> 0,
         total_checks |-> 0,
         last_email_sent |-> <<>>,
         first_failure_time |-> None,
         current_incident_id |-> None,
         recent_data |-> <<>>,
         avg_latency |-> [num |-> 0, den |-> 1],
         packet_loss_rate |-> [num |-> 0, den |-> 1],
         status |-> "up",
         last_check |-> None]]

\* initialize_targets: the dictionary of every enabled target.
initialize_targets(c) ==
    [n \in EnabledTargets(c) |->
        [consecutive_failures |-> 0,
         total_checks |-> 0,
         last_email_sent |-> <<>>,
         first_failure_time |-> None,
         current_incident_id |-> None,
         recent_data |-> <<>>,
         avg_latency |-> [num |-> 0, den |-> 1],
         packet_loss_rate |-> [num |-> 0, den |-> 1],
         status |-> "unknown",
         last_check |-> None]]

\* --------------------------------------------------------- the database
\* (Variant: start_incident that files every incident as a packet loss.)
start_incident_one_type(rows, seq, target_name, incident_type, t) ==
    rows \cup {[id |-> seq + 1,
                target_name |-> target_name,
                start_time |-> t,
                end_time |-> None,
                duration |-> None,
                incident_type |-> "PACKET_LOSS",
                max_latency |-> None,
                packet_loss_count |-> 0,
                resolved |-> FALSE]}

start_incident(rows, seq, target_name, incident_type, t) ==
    rows \cup {[id |-> seq + 1,
                target_name |-> target_name,
                start_time |-> t,
                end_time |-> None,
                duration |-> None,
                incident_type |-> incident_type,
                max_latency |-> None,
                packet_loss_count |-> 0,
                resolved |-> FALSE]}

\* (Variant: end_incident whose UPDATE leaves the row unresolved.)
end_incident_unresolved(rows, incident_id, max_latency, packet_loss_count, t) ==
    {IF r.id = incident_id
        THEN [r EXCEPT !.end_time = t,
                       !.duration = t - r.start_time,
                       !.max_latency = max_latency,
                       !.packet_loss_count = packet_loss_count]
        ELSE r : r \in rows}

end_incident(rows, incident_id, max_latency, packet_loss_count, t) ==
    {IF r.id = incident_id
        THEN [r EXCEPT !.end_time = t,
                       !.duration = t - r.start_time,
                       !.max_latency = max_latency,
                       !.packet_loss_count = packet_loss_count,
                       !.resolved = TRUE]
        ELSE r : r \in rows}

\* ------------------------------------------------------------ the alerts
\* A subject is the token list of "<prefix>: <target name>".
Subject(prefix, target_name) == <<prefix, ":", target_name>>

\* subject.split(':')[0]
SplitColon(subject) ==
    IF \E i \in 1..Len(subject) : subject[i] = ":"
      THEN LET first == CHOOSE i \in 1..Len(subject) :
                          /\ subject[i] = ":"
                          /\ \A j \in 1..(i - 1) : subject[j] # ":"
           IN SubSeq(subject, 1, first - 1)
      ELSE subject

\* (Variant: a key of the target name alone, one cooldown for all the
\* alerts of a target.)
EmailKey_target(target_name, subject) == <<target_name>>

\* email_key = f"{target_name}_{subject.split(':')[0]}"
EmailKey(target_name, subject) == <<target_name>> \o SplitColon(subject)

EmailKeys == {EmailKey(n, Subject(p, n)) : n \in TargetNames, p \in Prefixes}

\* dict.get(key)
Get(d, k) == IF k \in DOMAIN d THEN d[k] ELSE None

\* d[key] = value
Put(d, k, v) == [x \in DOMAIN d \cup {k} |-> IF x = k THEN v ELSE d[x]]

\* (Variant: the cooldown test with <= for <.)
Suppressed_inclusive(c, last_sent, t) ==
    \/ ~c.send_alerts
    \/ last_sent # None /\ t - last_sent <= c.cooldown_seconds

\* The cooldown test of send_email_alert: TRUE when the alert is dropped
\* before the mail transport is touched.
Suppressed(c, last_sent, t) ==
    \/ ~c.send_alerts
    \/ last_sent # None /\ t - last_sent < c.cooldown_seconds

\* (Variant: send_email_alert that stamps last_email_sent before the
\* transport answers, so a failed send starts the cooldown too.)
send_email_alert_stamps_attempt(c, td, target_name, subject, smtp_ok, calls, deliv, t) ==
    LET email_key == EmailKey(target_name, subject)
        last_sent == Get(td.last_email_sent, email_key)
    IN IF Suppressed(c, last_sent, t)
         THEN [last_email_sent |-> td.last_email_sent, calls |-> calls,
               deliv |-> deliv]
         ELSE [last_email_sent |-> Put(td.last_email_sent, email_key, t),
               calls |-> calls + 1,
               deliv |-> IF smtp_ok THEN deliv \cup {<<email_key, t>>}
                         ELSE deliv]

\* send_email_alert: the new values of the target's last_email_sent and of
\* the transport's call counter and deliveries, when the transport answers
\* smtp_ok (a failure anywhere between SMTP() and quit() is smtp_ok = FALSE).
send_email_alert(c, td, target_name, subject, smtp_ok, calls, deliv, t) ==
    LET email_key == EmailKey(target_name, subject)
        last_sent == Get(td.last_email_sent, email_key)
    IN IF Suppressed(c, last_sent, t)
         THEN [last_email_sent |-> td.last_email_sent, calls |-> calls,
               deliv |-> deliv]
         ELSE IF smtp_ok
           THEN [last_email_sent |-> Put(td.last_email_sent, email_key, t),
                 calls |-> calls + 1,
                 deliv |-> deliv \cup {<<email_key, t>>}]
           ELSE [last_email_sent |-> td.last_email_sent,
                 calls |-> calls + 1,
                 deliv |-> deliv]

\* ------------------------------------------------- the single-target monitor
\* isp_monitor.py: VisualISPMonitor probes one target from one thread.
\* Its subjects are held as their words, spaces included, and the number
\* they end with.
IspSubject(words, k) == [text |-> words, n |-> k]

NoSubject == IspSubject(<<>>, 0)

STARTED == <<"ISP", " ", "Monitor", " ", "Started">>
HIGH_LATENCY == <<"HIGH", " ", "LATENCY:", " ", "Issue">>
RESOLVED == <<"RESOLVED:", " ", "Network", " ", "Recovered">>
URGENT == <<"URGENT:", " ", "Packet", " ", "Loss", " ", "Failure">>

\* subject.replace(' ', '_')
replace_spaces(subject) ==
    [subject EXCEPT !.text = [i \in DOMAIN @ |->
                                IF @[i] = " " THEN "_" ELSE @[i]]]

general_key == IspSubject(<<"ANY_ALERT">>, 0)

\* The configurations of VisualISPMonitor: 'recipients' tells whether
\* parse_email_recipients finds a valid address in to_email.
IspConfigs ==
    [latency_threshold : {Threshold},
     cooldown_seconds : {Cooldown},
     send_every_failure : BOOLEAN,
     recipients : BOOLEAN]

default_config ==
    [latency_threshold |-> Threshold,
     cooldown_seconds |-> Cooldown,
     send_every_failure |-> TRUE,
     recipients |-> TRUE]

\* VisualISPMonitor.__init__; smtp_calls and delivered are the mail
\* transport, calls, subject and result the history of send_email: the
\* number of its calls, and the subject and the return value of the last.
VisualISPMonitor(c) ==
    [config |-> c,
     pc |-> "new",
     is_running |-> FALSE,
     consecutive_failures |-> 0,
     total_checks |-> 0,
     last_email_sent |-> <<>>,
     first_failure_time |-> None,
     smtp_calls |-> 0,
     delivered |-> {},
     calls |-> 0,
     subject |-> NoSubject,
     result |-> "none"]

\* VisualISPMonitor.ping_target
isp_ping_target(o) ==
    IF o.kind = "exception" THEN None
    ELSE IF Truthy(o) THEN o.ms ELSE None

\* (Variant: send_email with the cooldown of the subject's own key.)
send_email_per_subject(m, subject, smtp_ok, t) ==
    LET email_key == replace_spaces(subject)
        last_sent == Get(m.last_email_sent, email_key)
        called == [m EXCEPT !.calls = @ + 1, !.subject = subject]
    IN IF ~m.config.send_every_failure
         THEN [called EXCEPT !.result = "True"]
         ELSE IF last_sent # None
                   /\ t - last_sent < m.config.cooldown_seconds
           THEN [called EXCEPT !.result = "False"]
           ELSE IF ~m.config.recipients
             THEN [called EXCEPT !.result = "False"]
             ELSE IF smtp_ok
               THEN [called EXCEPT
                       !.smtp_calls = @ + 1,
                       !.delivered = @ \cup {<<subject, t>>},
                       !.last_email_sent =
                           Put(Put(@, email_key, t), general_key, t),
                       !.result = "True"]
               ELSE [called EXCEPT !.smtp_calls = @ + 1,
                                   !.result = "False"]

\* VisualISPMonitor.send_email on the monitor m at time t, when the
\* transport answers smtp_ok: the monitor after the call.  last_sent, the
\* time of the subject's own key, is read and not used.
send_email(m, subject, smtp_ok, t) ==
    LET email_key == replace_spaces(subject)
        last_any_alert == Get(m.last_email_sent, general_key)
        called == [m EXCEPT !.calls = @ + 1, !.subject = subject]
    IN IF ~m.config.send_every_failure
         THEN [called EXCEPT !.result = "True"]
         ELSE IF last_any_alert # None
                   /\ t - last_any_alert < m.config.cooldown_seconds
           THEN [called EXCEPT !.result = "False"]
           ELSE IF ~m.config.recipients
             THEN [called EXCEPT !.result = "False"]
             ELSE IF smtp_ok
               THEN [called EXCEPT
                       !.smtp_calls = @ + 1,
                       !.delivered = @ \cup {<<subject, t>>},
                       !.last_email_sent =
                           Put(Put(@, email_key, t), general_key, t),
                       !.result = "True"]
               ELSE [called EXCEPT !.smtp_calls = @ + 1,
                                   !.result = "False"]

\* The state of NetPulseMonitor, which isp_monitor.py does not touch.
nvars == <<config, is_running, targets, pc, outcome, latency, status,
           incidents, incident_seq, smtp_calls, delivered, streak, evars,
           dvars>>

\* VisualISPMonitor.start_monitoring up to its loop: the startup mail.
isp_start_monitoring ==
    /\ isp_monitor.pc = "new"
    /\ \E smtp_ok \in BOOLEAN :
         isp_monitor' = send_email([isp_monitor EXCEPT !.is_running = TRUE,
                                                       !.pc = "loop"],
                                   IspSubject(STARTED, 0), smtp_ok, now)
    /\ UNCHANGED <<nvars, now>>

\* One turn of the loop of start_monitoring: check_connectivity.
check_connectivity ==
    /\ isp_monitor.pc = "loop"
    /\ isp_monitor.is_running
    /\ isp_monitor.total_checks < MaxProbes
    /\ \E o \in ProberOutcomes, smtp_ok \in BOOLEAN :
         LET m == [isp_monitor EXCEPT !.total_checks = @ + 1]
             lat == isp_ping_target(o)
             failed == [m EXCEPT
                          !.first_failure_time =
                              IF m.consecutive_failures = 0 THEN now ELSE @,
                          !.consecutive_failures = @ + 1]
         IN isp_monitor' =
              IF lat # None /\ lat # 0
                THEN IF lat > m.config.latency_threshold
                       THEN send_email(failed,
                                       IspSubject(HIGH_LATENCY,
                                                  failed.consecutive_failures),
                                       smtp_ok, now)
                       ELSE IF m.consecutive_failures > 0
                         THEN [send_email(m, IspSubject(RESOLVED, 0),
                                          smtp_ok, now)
                                 EXCEPT !.consecutive_failures = 0,
                                        !.first_failure_time = None]
                         ELSE m
                ELSE send_email(failed,
                                IspSubject(URGENT, failed.consecutive_failures),
                                smtp_ok, now)
    /\ UNCHANGED <<nvars, now>>

\* ------------------------------------------------------------------ Init
\* The locals of cleanup_old_data before its first run.
NoneDeleted == [error |-> FALSE, pings |-> 0, incidents |-> 0, reports |-> 0]

\* The streak history of a target that has not failed yet.
NoStreak == [id |-> None, first |-> "none", last |-> "none", len |-> 0,
             losses |-> 0, max_latency |-> None, open |-> FALSE, count |-> 0]

InitBoth(C, I) ==
    /\ config \in C
    /\ is_running = FALSE
    /\ now = 0
    /\ targets = initialize_targets(config)
    /\ pc = [n \in EnabledTargets(config) |-> "new"]
    /\ outcome = [n \in EnabledTargets(config) |-> NoOutcome]
    /\ latency = [n \in EnabledTargets(config) |-> None]
    /\ status = [n \in EnabledTargets(config) |-> "none"]
    /\ incidents = {}
    /\ incident_seq = 0
    /\ smtp_calls = 0
    /\ delivered = {}
    /\ streak = [n \in EnabledTargets(config) |-> NoStreak]
    /\ websocket_clients = {}
    /\ hpc = [w \in Sockets |-> "none"]
    /\ bpc = "new"
    /\ dashboard_data = <<>>
    /\ disconnected_clients = {}
    /\ it_base = {}
    /\ it_seen = {}
    /\ client = None
    /\ ping_results = {}
    /\ ping_seq = 0
    /\ daily_reports = {}
    /\ report_seq = 0
    /\ spc = "idle"
    /\ joining = <<>>
    /\ report_date = None
    /\ todo = <<>>
    /\ report_error = "none"
    /\ deleted = NoneDeleted
    /\ reported = {}
    /\ stops = 0
    /\ isp_monitor \in {VisualISPMonitor(c) : c \in I}

\* The state after the construction of a NetPulseMonitor.
InitWith(C) == InitBoth(C, {default_config})

Init == InitWith(Configs)

\* The state after the construction of a VisualISPMonitor.
InitIsp == InitBoth(Configs, IspConfigs)

\* --------------------------------------------------------------- actions
Threads == DOMAIN targets

\* Probes started so far: the completed pings and the pings in flight.
RECURSIVE SumChecks(_)
SumChecks(S) ==
    IF S = {} THEN 0
    ELSE LET n == CHOOSE x \in S : TRUE
         IN targets[n].total_checks + SumChecks(S \ {n})

ProbesStarted == SumChecks(Threads) + Cardinality({n \in Threads : pc[n] = "ping"})

\* start_monitoring: set the flag and start one thread per target.  It runs
\* on the main thread, as the signal handler does, so not inside a stop.
StartMonitoring ==
    /\ ~is_running
    /\ \A n \in Threads : pc[n] = "new"
    /\ spc \in {"idle", "stopped"}
    /\ is_running' = TRUE
    /\ pc' = [n \in Threads |-> "loop"]
    /\ UNCHANGED <<config, now, targets, outcome, latency, status, incidents,
                   incident_seq, smtp_calls, delivered, streak>>
    /\ UNCHANGED <<evars, dvars>>
    /\ UNCHANGED isp_monitor

\* stop_monitoring: clear the flag the monitor threads poll.
StopSignal ==
    /\ is_running
    /\ is_running' = FALSE
    /\ UNCHANGED <<config, now, targets, pc, outcome, latency, status,
                   incidents, incident_seq, smtp_calls, delivered, streak>>
    /\ UNCHANGED <<evars, dvars>>
    /\ UNCHANGED isp_monitor

\* The wall clock advances, up to the value last.
Clock(last) ==
    /\ now < last
    /\ now' = now + 1
    /\ UNCHANGED <<config, is_running, targets, pc, outcome, latency, status,
                   incidents, incident_seq, smtp_calls, delivered, streak>>
    /\ UNCHANGED <<evars, dvars>>
    /\ UNCHANGED isp_monitor

Tick == Clock(MaxTime)

\* (Variant: the next probe starts while the result of the previous one is
\* still to be stored.)
LoopCheckWithin_early(n, budget) ==
    /\ pc[n] \in {"loop", "store"}
    /\ IF is_running
         THEN /\ ProbesStarted < budget
              /\ pc' = [pc EXCEPT ![n] = "ping"]
         ELSE pc' = [pc EXCEPT ![n] = "exited"]
    /\ UNCHANGED <<config, is_running, now, targets, outcome, latency, status,
                   incidents, incident_seq, smtp_calls, delivered, streak>>
    /\ UNCHANGED <<evars, dvars>>
    /\ UNCHANGED isp_monitor

\* (Variant: 'while True:', a loop that does not look at is_running.)
LoopCheckWithin_forever(n, budget) ==
    /\ pc[n] = "loop"
    /\ ProbesStarted < budget
    /\ pc' = [pc EXCEPT ![n] = "ping"]
    /\ UNCHANGED <<config, is_running, now, targets, outcome, latency, status,
                   incidents, incident_seq, smtp_calls, delivered, streak>>
    /\ UNCHANGED <<evars, dvars>>
    /\ UNCHANGED isp_monitor

\* 'while self.is_running:' after the sleep of the previous iteration; the
\* threads start at most budget probes together.
LoopCheckWithin(n, budget) ==
    /\ pc[n] = "loop"
    /\ IF is_running
         THEN /\ ProbesStarted < budget
              /\ pc' = [pc EXCEPT ![n] = "ping"]
         ELSE pc' = [pc EXCEPT ![n] = "exited"]
    /\ UNCHANGED <<config, is_running, now, targets, outcome, latency, status,
                   incidents, incident_seq, smtp_calls, delivered, streak>>
    /\ UNCHANGED <<evars, dvars>>
    /\ UNCHANGED isp_monitor

LoopCheck(n) == LoopCheckWithin(n, MaxProbes)

\* (Variant: total_checks kept in one counter the targets share.)
Ping_shared(n) ==
    /\ pc[n] = "ping"
    /\ \E o \in ProberOutcomes :
         /\ outcome' = [outcome EXCEPT ![n] = o]
         /\ latency' = [latency EXCEPT ![n] = ping_target(o)]
    /\ targets' = [m \in DOMAIN targets |->
                      IF m = n
                        THEN [targets[m] EXCEPT !.total_checks = @ + 1,
                                                !.last_check = now]
                        ELSE [targets[m] EXCEPT !.total_checks = @ + 1]]
    /\ pc' = [pc EXCEPT ![n] = "track"]
    /\ UNCHANGED <<config, is_running, now, status, incidents, incident_seq,
                   smtp_calls, delivered, streak>>
    /\ UNCHANGED <<evars, dvars>>
    /\ UNCHANGED isp_monitor

\* latency = self.ping_target(...); total_checks += 1; last_check = now
Ping(n) ==
    /\ pc[n] = "ping"
    /\ \E o \in ProberOutcomes :
         /\ outcome' = [outcome EXCEPT ![n] = o]
         /\ latency' = [latency EXCEPT ![n] = ping_target(o)]
    /\ targets' = [targets EXCEPT ![n].total_checks = @ + 1,
                                  ![n].last_check = now]
    /\ pc' = [pc EXCEPT ![n] = "track"]
    /\ UNCHANGED <<config, is_running, now, status, incidents, incident_seq,
                   smtp_calls, delivered, streak>>
    /\ UNCHANGED <<evars, dvars>>
    /\ UNCHANGED isp_monitor

\* The larger of two optional latencies.
MaxOpt(a, b) == IF a = None THEN b ELSE IF b = None THEN a
                ELSE IF a > b THEN a ELSE b

\* The streak history after a failing probe: a new streak when the previous
\* probe was not a failure, else the running one with this probe added.
StreakAfter(s, id, cls, lat) ==
    LET base == IF s.open THEN s
                ELSE [id |-> id, first |-> cls, last |-> cls, len |-> 0,
                      losses |-> 0, max_latency |-> None, open |-> TRUE,
                      count |-> s.count + 1]
    IN [base EXCEPT !.last = cls,
                    !.len = @ + 1,
                    !.losses = IF cls = "PACKET_LOSS" THEN @ + 1 ELSE @,
                    !.max_latency = MaxOpt(@, lat)]

\* (Variant: the test that opens an incident at every failing probe.)
FirstFailure_always(td) == TRUE

\* 'if target_data['consecutive_failures'] == 0:' of the failing branches.
FirstFailure(td) == td.consecutive_failures = 0

\* (Variant: a database error of start_incident leaves the branch before
\* the increment of consecutive_failures.)
TrackFailure_raising(n, incident_type, db) ==
    LET td == targets[n]
    IN /\ IF FirstFailure(td)
            THEN \E db_ok \in db :
                   IF db_ok
                     THEN /\ incidents' = start_incident(incidents, incident_seq,
                                                         n, incident_type, now)
                          /\ incident_seq' = incident_seq + 1
                          /\ targets' = [targets EXCEPT
                                ![n].first_failure_time = now,
                                ![n].current_incident_id = incident_seq + 1,
                                ![n].consecutive_failures = @ + 1]
                     ELSE /\ targets' = [targets EXCEPT
                                ![n].first_failure_time = now]
                          /\ UNCHANGED <<incidents, incident_seq>>
            ELSE /\ targets' = [targets EXCEPT ![n].consecutive_failures = @ + 1]
                 /\ UNCHANGED <<incidents, incident_seq>>
       /\ streak' = [streak EXCEPT ![n] =
               StreakAfter(@, targets'[n].current_incident_id, incident_type,
                           latency[n])]
       /\ UNCHANGED <<smtp_calls, delivered>>

\* The incident and counter part of a failing branch: on the first failure
\* of a streak first_failure_time and start_incident, then the increment.
\* db is the set of answers the database may give.
TrackFailure(n, incident_type, db) ==
    LET td == targets[n]
    IN /\ IF FirstFailure(td)
            THEN \E db_ok \in db :
                   IF db_ok
                     THEN /\ incidents' = start_incident(incidents, incident_seq,
                                                         n, incident_type, now)
                          /\ incident_seq' = incident_seq + 1
                          /\ targets' = [targets EXCEPT
                                ![n].first_failure_time = now,
                                ![n].current_incident_id = incident_seq + 1,
                                ![n].consecutive_failures = @ + 1]
                     ELSE /\ targets' = [targets EXCEPT
                                ![n].first_failure_time = now,
                                ![n].current_incident_id = None,
                                ![n].consecutive_failures = @ + 1]
                          /\ UNCHANGED <<incidents, incident_seq>>
            ELSE /\ targets' = [targets EXCEPT ![n].consecutive_failures = @ + 1]
                 /\ UNCHANGED <<incidents, incident_seq>>
       /\ streak' = [streak EXCEPT ![n] =
               StreakAfter(@, targets'[n].current_incident_id, incident_type,
                           latency[n])]
       /\ UNCHANGED <<smtp_calls, delivered>>

\* (Variant: the test that never finds an incident to close.)
HasIncident_never(td) == FALSE

\* 'if target_data['current_incident_id']:' (None and 0 are falsy).
HasIncident(td) == td.current_incident_id # None /\ td.current_incident_id # 0

\* The recovery part of the OK branch: end_incident, the RECOVERED alert
\* and the reset of the streak fields, all only after a failure.
TrackOk(n, db) ==
    LET td == targets[n]
    IN /\ IF td.consecutive_failures > 0
            THEN \E db_ok \in db, smtp_ok \in BOOLEAN :
                LET closing == HasIncident(td)
                    sent == send_email_alert(config, td, n,
                                             Subject(RECOVERED_SUBJECT, n),
                                             smtp_ok, smtp_calls, delivered, now)
                IN /\ incidents' =
                        IF closing /\ db_ok
                          THEN end_incident(incidents, td.current_incident_id,
                                            None, 0, now)
                          ELSE incidents
                   /\ targets' = [targets EXCEPT
                         ![n].last_email_sent = sent.last_email_sent,
                         ![n].consecutive_failures = 0,
                         ![n].first_failure_time = None,
                         ![n].current_incident_id = None]
                   /\ smtp_calls' = sent.calls
                   /\ delivered' = sent.deliv
            ELSE UNCHANGED <<targets, incidents, smtp_calls, delivered>>
       /\ streak' = [streak EXCEPT ![n].open = FALSE]
       /\ UNCHANGED incident_seq

Track(n, db) ==
    /\ pc[n] = "track"
    /\ LET cls == Classify(latency[n], config.latency_threshold)
       IN /\ status' = [status EXCEPT ![n] = cls]
          /\ IF cls = "OK" THEN TrackOk(n, db) ELSE TrackFailure(n, cls, db)
    /\ pc' = [pc EXCEPT ![n] = "status"]
    /\ UNCHANGED <<config, is_running, now, outcome, latency>>
    /\ UNCHANGED <<evars, dvars>>
    /\ UNCHANGED isp_monitor

\* (Variant: the status with high latency shown as up.)
StatusOf_latency_up(cls) ==
    IF cls = "PACKET_LOSS" THEN "down" ELSE "up"

\* (Variant: the status with the two failure kinds exchanged.)
StatusOf_swapped(cls) ==
    IF cls = "PACKET_LOSS" THEN "degraded"
    ELSE IF cls = "HIGH_LATENCY" THEN "down"
    ELSE "up"

\* The status of the branch taken.
StatusOf(cls) ==
    IF cls = "PACKET_LOSS" THEN "down"
    ELSE IF cls = "HIGH_LATENCY" THEN "degraded"
    ELSE "up"

\* (Variant: every failing branch alerts under PACKET LOSS.)
AlertPrefix_loss(cls) == PACKET_LOSS_SUBJECT

\* The subject prefix of the alert of a failing branch.
AlertPrefix(cls) ==
    IF cls = "PACKET_LOSS" THEN PACKET_LOSS_SUBJECT ELSE HIGH_LATENCY_SUBJECT

\* target_data['status'] = ...; in a failing branch followed by the alert.
SetStatus(n) ==
    /\ pc[n] = "status"
    /\ LET cls == status[n]
           td == [targets[n] EXCEPT !.status = StatusOf(cls)]
       IN IF cls = "OK"
            THEN /\ targets' = [targets EXCEPT ![n] = td]
                 /\ UNCHANGED <<smtp_calls, delivered>>
            ELSE \E smtp_ok \in BOOLEAN :
                   LET sent == send_email_alert(config, td, n,
                                                Subject(AlertPrefix(cls), n),
                                                smtp_ok, smtp_calls, delivered,
                                                now)
                   IN /\ targets' = [targets EXCEPT ![n] =
                            [td EXCEPT !.last_email_sent = sent.last_email_sent]]
                      /\ smtp_calls' = sent.calls
                      /\ delivered' = sent.deliv
    /\ pc' = [pc EXCEPT ![n] = "store"]
    /\ UNCHANGED <<config, is_running, now, outcome, latency, status,
                   incidents, incident_seq, streak>>
    /\ UNCHANGED <<evars, dvars>>
    /\ UNCHANGED isp_monitor

\* The end of the iteration: the locals are dropped and the thread sleeps.
\* The row written to ping_results and the dashboard window (recent_data and
\* its averages) are written here and read by no step of the monitor; this
\* step leaves them out, StoreRow below writes the row.
Store(n) ==
    /\ pc[n] = "store"
    /\ pc' = [pc EXCEPT ![n] = "loop"]
    /\ outcome' = [outcome EXCEPT ![n] = NoOutcome]
    /\ latency' = [latency EXCEPT ![n] = None]
    /\ status' = [status EXCEPT ![n] = "none"]
    /\ UNCHANGED <<config, is_running, now, targets, incidents, incident_seq,
                   smtp_calls, delivered, streak>>
    /\ UNCHANGED <<evars, dvars>>
    /\ UNCHANGED isp_monitor

\* The steps of the program when the database answers from db.
NextWith(db) ==
    \/ StartMonitoring
    \/ StopSignal
    \/ Tick
    \/ \E n \in Threads : LoopCheck(n)
    \/ \E n \in Threads : Ping(n)
    \/ \E n \in Threads : Track(n, db)
    \/ \E n \in Threads : SetStatus(n)
    \/ \E n \in Threads : Store(n)

\* Every database call may fail.
Next == NextWith(BOOLEAN)

Spec == Init /\ [][Next]_vars

\* The EventStore works: no database call fails.
NextStoreOk == NextWith({TRUE})

SpecStoreOk == Init /\ [][NextStoreOk]_vars

\* ------------------------------------------------------- the event loop
\* asyncio runs the handlers and the broadcast task on one thread: a
\* coroutine runs until its next await, so a handler moves only while the
\* broadcast task is suspended (in client.send or in asyncio.sleep), has
\* returned, or has ended with an exception.
Suspended == bpc \in {"sending", "sleep", "done", "dead"}

\* (Variant: the slice [:k], the first k entries.)
last_entries_first(xs, k) ==
    IF Len(xs) <= k THEN xs ELSE SubSeq(xs, 1, k)

\* list(xs)[-k:] for k > 0: the last k entries, or all when there are fewer.
last_entries(xs, k) ==
    IF Len(xs) <= k THEN xs ELSE SubSeq(xs, Len(xs) - k + 1, Len(xs))

\* The 'targets' part of dashboard_data, without the address and the
\* rounded averages.
dashboard_targets(ts) ==
    [n \in DOMAIN ts |->
        [name |-> n,
         status |-> ts[n].status,
         consecutive_failures |-> ts[n].consecutive_failures,
         total_checks |-> ts[n].total_checks,
         last_check |-> ts[n].last_check,
         recent_data |-> last_entries(ts[n].recent_data, TailLength)]]

\* (Variant: the clients whose push failed stay subscribed.)
remove_disconnected_keep(clients, disconnected) == clients

\* self.websocket_clients -= disconnected_clients
remove_disconnected(clients, disconnected) == clients \ disconnected

\* start_websocket_server: the server listens and the broadcast task is
\* created; it first runs when start_websocket_server awaits.
start_websocket_server ==
    /\ bpc = "new"
    /\ \A n \in Threads : pc[n] # "new"
    /\ bpc' = "check"
    /\ UNCHANGED <<is_running, mvars, dvars, websocket_clients, hpc, dashboard_data,
                   disconnected_clients, it_base, it_seen, client>>
    /\ UNCHANGED isp_monitor

\* websocket_handler up to its await: the new connection is subscribed.
websocket_handler(w) ==
    /\ bpc # "new" /\ Suspended
    /\ hpc[w] = "none"
    /\ websocket_clients' = websocket_clients \cup {w}
    /\ hpc' = [hpc EXCEPT ![w] = "wait_closed"]
    /\ UNCHANGED <<is_running, mvars, dvars, bpc, dashboard_data,
                   disconnected_clients, it_base, it_seen, client>>
    /\ UNCHANGED isp_monitor

\* The event loop learns that the connection of w is closed: the
\* connection's state changes and wait_closed() is ready to return.
connection_lost(w) ==
    /\ Suspended
    /\ hpc[w] = "wait_closed"
    /\ hpc' = [hpc EXCEPT ![w] = "closed"]
    /\ UNCHANGED <<is_running, mvars, dvars, websocket_clients, bpc, dashboard_data,
                   disconnected_clients, it_base, it_seen, client>>
    /\ UNCHANGED isp_monitor

\* websocket_handler's finally: set.remove raises KeyError when the
\* broadcast task has already dropped the connection.
websocket_handler_finally(w) ==
    /\ Suspended
    /\ hpc[w] = "closed"
    /\ IF w \in websocket_clients
         THEN /\ websocket_clients' = websocket_clients \ {w}
              /\ hpc' = [hpc EXCEPT ![w] = "returned"]
         ELSE /\ hpc' = [hpc EXCEPT ![w] = "KeyError"]
              /\ UNCHANGED websocket_clients
    /\ UNCHANGED <<is_running, mvars, dvars, bpc, dashboard_data,
                   disconnected_clients, it_base, it_seen, client>>
    /\ UNCHANGED isp_monitor

\* (Variant: a broadcast that takes the entries it sends out of the
\* window of every target.)
broadcast_data_check_drains ==
    /\ bpc = "check"
    /\ IF ~is_running
         THEN /\ bpc' = "done"
              /\ UNCHANGED <<dashboard_data, disconnected_clients, it_base,
                             it_seen, targets>>
         ELSE IF websocket_clients = {}
           THEN /\ bpc' = "sleep"
                /\ UNCHANGED <<dashboard_data, disconnected_clients, it_base,
                               it_seen, targets>>
           ELSE /\ dashboard_data' = dashboard_targets(targets)
                /\ targets' = [n \in DOMAIN targets |->
                        [targets[n] EXCEPT !.recent_data =
                            SubSeq(@, 1, Len(@) - Len(dashboard_data'[n].recent_data))]]
                /\ disconnected_clients' = {}
                /\ it_base' = websocket_clients
                /\ it_seen' = {}
                /\ bpc' = "next"
    /\ UNCHANGED <<config, now, pc, outcome, latency, status, incidents,
                   incident_seq, smtp_calls, delivered, streak>>
    /\ UNCHANGED <<is_running, dvars, websocket_clients, hpc, client>>
    /\ UNCHANGED isp_monitor

\* broadcast_data from 'while self.is_running:' to the creation of the
\* iterator of 'for client in self.websocket_clients:'; no await lies
\* between.
broadcast_data_check ==
    /\ bpc = "check"
    /\ IF ~is_running
         THEN /\ bpc' = "done"
              /\ UNCHANGED <<dashboard_data, disconnected_clients, it_base,
                             it_seen>>
         ELSE IF websocket_clients = {}
           THEN /\ bpc' = "sleep"
                /\ UNCHANGED <<dashboard_data, disconnected_clients, it_base,
                               it_seen>>
           ELSE /\ dashboard_data' = dashboard_targets(targets)
                /\ disconnected_clients' = {}
                /\ it_base' = websocket_clients
                /\ it_seen' = {}
                /\ bpc' = "next"
    /\ UNCHANGED <<is_running, mvars, dvars, websocket_clients, hpc, client>>
    /\ UNCHANGED isp_monitor

\* The for statement asks the set iterator for the next client.  The
\* iterator raises RuntimeError when the set has another size than at its
\* creation; nothing in broadcast_data catches it, so the task ends.  With
\* the size unchanged it yields the elements it has not passed; an element
\* added since its creation may lie behind its position and be skipped.
\* When it is exhausted the failed clients are removed and the task sleeps.
broadcast_data_next ==
    /\ bpc = "next"
    /\ IF Cardinality(websocket_clients) # Cardinality(it_base)
         THEN /\ bpc' = "dead"
              /\ UNCHANGED <<websocket_clients, it_seen, client>>
         ELSE LET rest == websocket_clients \ it_seen
              IN \/ \E c \in rest :
                       /\ client' = c
                       /\ it_seen' = it_seen \cup {c}
                       /\ bpc' = "sending"
                       /\ UNCHANGED websocket_clients
                 \/ /\ rest \cap it_base = {}
                    /\ websocket_clients' =
                          remove_disconnected(websocket_clients,
                                              disconnected_clients)
                    /\ bpc' = "sleep"
                    /\ UNCHANGED <<it_seen, client>>
    /\ UNCHANGED <<is_running, mvars, dvars, hpc, dashboard_data,
                   disconnected_clients, it_base>>
    /\ UNCHANGED isp_monitor

\* 'await client.send(...)' returns or raises: ConnectionClosed when the
\* connection is closed, else it succeeds or raises another exception.
broadcast_data_sent ==
    /\ bpc = "sending"
    /\ \E ok \in BOOLEAN :
         /\ ok => hpc[client] = "wait_closed"
         /\ disconnected_clients' =
               IF ok THEN disconnected_clients
               ELSE disconnected_clients \cup {client}
    /\ bpc' = "next"
    /\ UNCHANGED <<is_running, mvars, dvars, websocket_clients, hpc, dashboard_data,
                   it_base, it_seen, client>>
    /\ UNCHANGED isp_monitor

\* 'await asyncio.sleep(...)' returns.
broadcast_data_sleep ==
    /\ bpc = "sleep"
    /\ bpc' = "check"
    /\ UNCHANGED <<is_running, mvars, dvars, websocket_clients, hpc, dashboard_data,
                   disconnected_clients, it_base, it_seen, client>>
    /\ UNCHANGED isp_monitor

\* The event loop beside the start and the stop of the engine; the monitor
\* threads are left where start_monitoring put them.
NextBroadcast ==
    \/ StartMonitoring
    \/ StopSignal
    \/ start_websocket_server
    \/ \E w \in Sockets : websocket_handler(w)
    \/ \E w \in Sockets : connection_lost(w)
    \/ \E w \in Sockets : websocket_handler_finally(w)
    \/ broadcast_data_check
    \/ broadcast_data_next
    \/ broadcast_data_sent
    \/ broadcast_data_sleep

SpecBroadcast == Init /\ [][NextBroadcast]_vars

\* ------------------------------------------------- reports and retention
\* DATE(timestamp) and datetime.date(): the calendar day of a clock value.
Day(t) == t \div DayLength

\* The keys of self.targets in the order initialize_targets inserted them.
TargetList == <<"A", "B">>

target_keys(c) == SelectSeq(TargetList, LAMBDA n : c.enabled[n])

\* (Variant: 'INSERT OR REPLACE' under a key of target and timestamp, which
\* keeps one row of the probes of a target that fall in one clock tick.)
store_ping_result_keyed(rows, seq, target_name, lat, st, t) ==
    {r \in rows : ~(r.target_name = target_name /\ r.timestamp = t)}
      \cup {[id |-> seq + 1,
              target_name |-> target_name,
              timestamp |-> t,
              latency |-> lat,
              status |-> st,
              packet_loss |-> IF lat = None THEN 1 ELSE 0]}

\* store_ping_result's INSERT; st is the class of the probe, the leading
\* word of the status text.
store_ping_result(rows, seq, target_name, lat, st, t) ==
    rows \cup {[id |-> seq + 1,
                target_name |-> target_name,
                timestamp |-> t,
                latency |-> lat,
                status |-> st,
                packet_loss |-> IF lat = None THEN 1 ELSE 0]}

RECURSIVE SumLatency(_)
SumLatency(R) ==
    IF R = {} THEN 0
    ELSE LET r == CHOOSE x \in R : TRUE
         IN r.latency + SumLatency(R \ {r})

\* A quotient, held as numerator and denominator; SQL's NULL for an
\* average over no row has denominator 0.
Quot(a, b) == [num |-> a, den |-> b]

\* 'x or 0' of a number and of a quotient.
OrZero(x) == IF x = None \/ x = 0 THEN 0 ELSE x

QuotOrZero(q) == IF q.den = 0 \/ q.num = 0 THEN Quot(0, 1) ELSE q

\* The SELECT of generate_daily_reports over the rows of a target and day.
ping_stats(rows, target_name, d) ==
    LET R == {r \in rows : r.target_name = target_name /\ Day(r.timestamp) = d}
        L == {r \in R : r.latency # None}
    IN [total_checks |-> Cardinality(R),
        successful_checks |-> Cardinality(L),
        packet_loss_count |-> Cardinality({r \in R : r.packet_loss = 1}),
        avg_latency |-> Quot(SumLatency(L), Cardinality(L)),
        max_latency |-> IF L = {} THEN None
                        ELSE CHOOSE m \in {r.latency : r \in L} :
                                 \A r \in L : r.latency <= m,
        min_latency |-> IF L = {} THEN None
                        ELSE CHOOSE m \in {r.latency : r \in L} :
                                 \A r \in L : m <= r.latency]

\* The values generate_daily_reports writes for a target and day.
daily_report(rows, incs, target_name, d) ==
    LET stats == ping_stats(rows, target_name, d)
    IN [target_name |-> target_name,
        report_date |-> d,
        total_checks |-> stats.total_checks,
        successful_checks |-> stats.successful_checks,
        packet_loss_count |-> stats.packet_loss_count,
        avg_latency |-> QuotOrZero(stats.avg_latency),
        max_latency |-> OrZero(stats.max_latency),
        min_latency |-> OrZero(stats.min_latency),
        uptime_percentage |-> Quot(stats.successful_checks * 100,
                                   stats.total_checks),
        incidents_count |->
            Cardinality({i \in incs : /\ i.target_name = target_name
                                      /\ Day(i.start_time) = d})]

\* A row of daily_reports: the values and the row id.
ReportRow(values, id) ==
    [x \in DOMAIN values \cup {"id"} |-> IF x = "id" THEN id ELSE values[x]]

\* The values of a row of daily_reports, without the row id.
ReportValues(r) == [x \in DOMAIN r \ {"id"} |-> r[x]]

\* (Variant: a plain INSERT into a table without the UNIQUE constraint.)
insert_or_replace_plain(reports, seq, values) ==
    reports \cup {ReportRow(values, seq + 1)}

\* INSERT OR REPLACE under UNIQUE(target_name, report_date): the row of
\* the same key is deleted and the new row gets a new id.
insert_or_replace(reports, seq, values) ==
    {r \in reports : ~(/\ r.target_name = values.target_name
                       /\ r.report_date = values.report_date)}
      \cup {ReportRow(values, seq + 1)}

\* (Variant: the three DELETEs with <= for <.)
delete_before_inclusive(pings, incs, reports, retention_date) ==
    [pings |-> {r \in pings : ~(r.timestamp <= retention_date)},
     incs |-> {r \in incs : ~(r.start_time <= retention_date)},
     reports |-> {r \in reports : ~(r.report_date <= Day(retention_date))}]

\* The three DELETEs of cleanup_old_data.
delete_before(pings, incs, reports, retention_date) ==
    [pings |-> {r \in pings : ~(r.timestamp < retention_date)},
     incs |-> {r \in incs : ~(r.start_time < retention_date)},
     reports |-> {r \in reports : ~(r.report_date < Day(retention_date))}]

\* ------------------------------------------------------- stop_monitoring
\* The monitor state stop_monitoring leaves alone.
svars == <<config, targets, pc, outcome, latency, status, incident_seq,
           smtp_calls, delivered, streak>>

\* stop_monitoring is entered, from the signal handler or from the finally
\* of start_monitoring: the flag is cleared; monitoring_threads holds the
\* threads start_monitoring has started.
stop_monitoring ==
    /\ spc \in {"idle", "stopped"}
    /\ stops < MaxStops
    /\ stops' = stops + 1
    /\ is_running' = FALSE
    /\ joining' = SelectSeq(target_keys(config), LAMBDA n : pc[n] # "new")
    /\ spc' = "join"
    /\ UNCHANGED <<svars, now, incidents, evars, ping_results, ping_seq,
                   daily_reports, report_seq, report_date, todo, report_error,
                   reported>>
    /\ UNCHANGED deleted
    /\ UNCHANGED isp_monitor

\* One turn of the join loop: a thread that is not alive is passed over,
\* else thread.join(timeout=5) returns when the thread has ended or when
\* the timeout has run out with the thread still in its iteration.
stop_join ==
    /\ spc = "join"
    /\ IF joining = <<>>
         THEN spc' = "reports" /\ UNCHANGED joining
         ELSE joining' = Tail(joining) /\ UNCHANGED spc
    /\ UNCHANGED <<svars, is_running, now, incidents, evars, ping_results,
                   ping_seq, daily_reports, report_seq, report_date, todo,
                   report_error, reported>>
    /\ UNCHANGED stops
    /\ UNCHANGED deleted
    /\ UNCHANGED isp_monitor

\* generate_daily_reports up to its loop: report_date is read once.
generate_daily_reports ==
    /\ spc = "reports"
    /\ report_date' = Day(now)
    /\ todo' = target_keys(config)
    /\ report_error' = "none"
    /\ spc' = "report_loop"
    /\ UNCHANGED <<svars, is_running, now, incidents, evars, ping_results,
                   ping_seq, daily_reports, report_seq, joining, reported>>
    /\ UNCHANGED stops
    /\ UNCHANGED deleted
    /\ UNCHANGED isp_monitor

\* One turn of the loop of generate_daily_reports: the transaction of one
\* target.  A database error raises out of the loop to the except of line
\* 546, which ends the pass.
generate_report(db) ==
    /\ spc = "report_loop"
    /\ IF todo = <<>>
         THEN /\ spc' = "cleanup"
              /\ UNCHANGED <<daily_reports, report_seq, todo, report_error,
                             reported>>
         ELSE \E db_ok \in db :
                LET n == Head(todo)
                    values == daily_report(ping_results, incidents, n,
                                           report_date)
                IN IF ~db_ok
                     THEN /\ report_error' = n
                          /\ spc' = "cleanup"
                          /\ UNCHANGED <<daily_reports, report_seq, todo,
                                         reported>>
                     ELSE /\ IF values.total_checks > 0
                               THEN /\ daily_reports' =
                                         insert_or_replace(daily_reports,
                                                           report_seq, values)
                                    /\ report_seq' = report_seq + 1
                                    /\ reported' = reported
                                          \cup {<<n, report_date>>}
                               ELSE UNCHANGED <<daily_reports, report_seq,
                                                reported>>
                          /\ todo' = Tail(todo)
                          /\ UNCHANGED <<spc, report_error>>
    /\ UNCHANGED <<svars, is_running, now, incidents, evars, ping_results,
                   ping_seq, joining, report_date>>
    /\ UNCHANGED stops
    /\ UNCHANGED deleted
    /\ UNCHANGED isp_monitor

\* cleanup_old_data: one transaction; a database error rolls it back.
cleanup_old_data(db) ==
    /\ spc = "cleanup"
    /\ \E db_ok \in db :
         LET retention_date == now - config.retention_days * DayLength
             kept == delete_before(ping_results, incidents, daily_reports,
                                   retention_date)
         IN IF db_ok
              THEN /\ ping_results' = kept.pings
                   /\ incidents' = kept.incs
                   /\ daily_reports' = kept.reports
                   /\ deleted' =
                        [error |-> FALSE,
                         pings |-> Cardinality(ping_results \ kept.pings),
                         incidents |-> Cardinality(incidents \ kept.incs),
                         reports |-> Cardinality(daily_reports \ kept.reports)]
              ELSE /\ deleted' = [deleted EXCEPT !.error = TRUE]
                   /\ UNCHANGED <<ping_results, incidents, daily_reports>>
    /\ spc' = "stopped"
    /\ UNCHANGED <<svars, is_running, now, evars, ping_seq, report_seq,
                   joining, report_date, todo, report_error, reported, stops>>
    /\ UNCHANGED isp_monitor

\* ----------------------------------------- a stop over an old database
\* The database file outlives the process (CREATE TABLE IF NOT EXISTS): a
\* run starts over the rows earlier runs left.  The clock starts at
\* StartTime, one tick into the day that follows the retention period, and
\* runs for one more day; the old rows lie at or before StartTime.
StartTime == RetentionDays * DayLength + 1

LastTime == StartTime + DayLength

ReportConfigs ==
    [enabled : {[n \in TargetNames |-> TRUE]},
     latency_threshold : {Threshold},
     cooldown_seconds : {Cooldown},
     retention_days : {RetentionDays},
     max_data_points : {MaxDataPoints},
     send_alerts : {FALSE}]

\* The position of a target in the configuration, from 1.
TargetRank(n) == CHOOSE i \in 1..Len(TargetList) : TargetList[i] = n

\* A row id of an earlier run: ids grow with the time of the insert and
\* are not reused, so they may have gaps.
OldId(n, t) == t * Len(TargetList) + TargetRank(n)

\* What an earlier run left of each target: none or one probe, with the
\* time and the latency of the probe, and none or one daily report, with
\* its day.
OldProbes ==
    [TargetNames ->
        {S \in SUBSET [timestamp : 0..StartTime, latency : {None, MaxLatency}] :
            Cardinality(S) <= 1}]

OldReportDays ==
    [TargetNames -> {S \in SUBSET (0..Day(StartTime)) : Cardinality(S) <= 1}]

\* The rows of ping_results of the old probes.
OldPingResults(old) ==
    UNION {{store_ping_result({}, OldId(n, r.timestamp) - 1, n, r.latency,
                              Classify(r.latency, Threshold), r.timestamp)
              : r \in old[n]} : n \in TargetNames}

\* The rows of incidents of the old probes: a lost probe opened an incident
\* and the run ended before the target recovered.
OldIncidents(old) ==
    UNION {{start_incident({}, OldId(n, r.timestamp) - 1, n, "PACKET_LOSS",
                           r.timestamp)
              : r \in {q \in old[n] : q.latency = None}} : n \in TargetNames}

\* The rows of daily_reports of the old reports: the report of a day with
\* one probe.
OldDailyReports(days) ==
    UNION {{insert_or_replace({}, OldId(n, d) - 1,
               daily_report(store_ping_result({}, 0, n, MaxLatency, "OK",
                                              d * DayLength), {}, n, d))
              : d \in days[n]} : n \in TargetNames}

InitReports ==
    /\ config \in ReportConfigs
    /\ is_running = FALSE
    /\ now = StartTime
    /\ targets = initialize_targets(config)
    /\ pc = [n \in EnabledTargets(config) |-> "new"]
    /\ outcome = [n \in EnabledTargets(config) |-> NoOutcome]
    /\ latency = [n \in EnabledTargets(config) |-> None]
    /\ status = [n \in EnabledTargets(config) |-> "none"]
    /\ smtp_calls = 0
    /\ delivered = {}
    /\ streak = [n \in EnabledTargets(config) |-> NoStreak]
    /\ websocket_clients = {}
    /\ hpc = [w \in Sockets |-> "none"]
    /\ bpc = "new"
    /\ dashboard_data = <<>>
    /\ disconnected_clients = {}
    /\ it_base = {}
    /\ it_seen = {}
    /\ client = None
    /\ \E old \in OldProbes, days \in OldReportDays :
         /\ ping_results = UNION OldPingResults(old)
         /\ incidents = UNION OldIncidents(old)
         /\ daily_reports = UNION OldDailyReports(days)
    /\ ping_seq = OldId(TargetList[Len(TargetList)], StartTime)
    /\ incident_seq = OldId(TargetList[Len(TargetList)], StartTime)
    /\ report_seq = OldId(TargetList[Len(TargetList)], Day(StartTime))
    /\ spc = "idle"
    /\ joining = <<>>
    /\ report_date = None
    /\ todo = <<>>
    /\ report_error = "none"
    /\ deleted = NoneDeleted
    /\ reported = {}
    /\ stops = 0
    /\ isp_monitor = VisualISPMonitor(default_config)

\* The engine is stopped, any number of times, while its monitor threads
\* sleep: every database call of the stop may fail.
NextReports ==
    \/ StartMonitoring
    \/ Clock(LastTime)
    \/ stop_monitoring
    \/ stop_join
    \/ generate_daily_reports
    \/ generate_report(BOOLEAN)
    \/ cleanup_old_data(BOOLEAN)

SpecReports == InitReports /\ [][NextReports]_vars

\* -------------------------------------------------- the engine's uptime
\* A run over a new database while the monitor threads sleep: time passes
\* (the clock is fair) and the engine is stopped at any moment, or never,
\* since the signal that stops it comes from outside.  No step other than
\* those of stop_monitoring calls generate_daily_reports or
\* cleanup_old_data: start_monitoring creates the monitor threads and the
\* broadcast task only.
SpecUptime == Init /\ [][NextReports]_vars /\ WF_vars(Clock(LastTime))

\* ------------------------------------------- a stop of running monitors
\* The entry monitor_target makes for the dashboard window.
data_point(t, lat, st, failures) ==
    [timestamp |-> t, latency |-> lat, status |-> st,
     consecutive_failures |-> failures]

\* (Variant: a full window drops its newest entry to take the new one.)
deque_append_newest(dq, maxlen, x) ==
    IF maxlen = 0 THEN dq
    ELSE IF Len(dq) >= maxlen THEN SubSeq(dq, 1, maxlen - 1) \o <<x>>
    ELSE Append(dq, x)

\* deque(maxlen=...).append: a full deque drops its leftmost entry.
deque_append(dq, maxlen, x) ==
    IF maxlen = 0 THEN dq
    ELSE IF Len(dq) >= maxlen THEN Tail(dq) \o <<x>>
    ELSE Append(dq, x)

\* The greatest common divisor of two naturals.
RECURSIVE GCD(_, _)
GCD(a, b) == IF b = 0 THEN a ELSE GCD(b, a % b)

\* The number a / b for b > 0, held in lowest terms.
Fraction(a, b) == LET g == GCD(a, b) IN [num |-> a \div g, den |-> b \div g]

\* sum() of a list of numbers.
RECURSIVE SumSeq(_)
SumSeq(xs) == IF xs = <<>> THEN 0 ELSE Head(xs) + SumSeq(Tail(xs))

\* [d['latency'] for d in recent_data if d['latency'] is not None]
recent_latencies(dq) ==
    LET with == SelectSeq(dq, LAMBDA d : d.latency # None)
    IN [i \in 1..Len(with) |-> with[i].latency]

\* 'Update averages': avg_latency is written when the window holds a
\* latency and keeps its value when it holds none; the division of
\* packet_loss_rate raises on an empty window (max_data_points of 0), to
\* the except of the loop.
update_averages(td) ==
    LET lats == recent_latencies(td.recent_data)
        losses == Len(td.recent_data) - Len(lats)
    IN IF Len(td.recent_data) = 0
         THEN [td EXCEPT
                 !.avg_latency = IF lats # <<>>
                                   THEN Fraction(SumSeq(lats), Len(lats))
                                   ELSE @]
         ELSE [td EXCEPT
                 !.avg_latency = IF lats # <<>>
                                   THEN Fraction(SumSeq(lats), Len(lats))
                                   ELSE @,
                 !.packet_loss_rate =
                     Fraction(losses * 100, Len(td.recent_data))]

\* The end of the iteration with the row of ping_results and the dashboard
\* window: the INSERT of store_ping_result, which swallows a database
\* error, the append to recent_data and the averages over the window; then
\* the locals are dropped and the thread sleeps.
StoreRow(n, db) ==
    /\ pc[n] = "store"
    /\ \E db_ok \in db :
         IF db_ok
           THEN /\ ping_results' = store_ping_result(ping_results, ping_seq, n,
                                                     latency[n], status[n], now)
                /\ ping_seq' = ping_seq + 1
           ELSE UNCHANGED <<ping_results, ping_seq>>
    /\ targets' = [targets EXCEPT ![n] = update_averages(
            [@ EXCEPT !.recent_data =
                deque_append(@, config.max_data_points,
                             data_point(now, latency[n], status[n],
                                        targets[n].consecutive_failures))])]
    /\ pc' = [pc EXCEPT ![n] = "loop"]
    /\ outcome' = [outcome EXCEPT ![n] = NoOutcome]
    /\ latency' = [latency EXCEPT ![n] = None]
    /\ status' = [status EXCEPT ![n] = "none"]
    /\ UNCHANGED <<config, is_running, now, incidents, incident_seq,
                   smtp_calls, delivered, streak, evars>>
    /\ UNCHANGED <<daily_reports, report_seq, spc, joining, report_date, todo,
                   report_error, deleted, reported, stops>>
    /\ UNCHANGED isp_monitor

\* The monitor threads and the stop of the engine side by side, when the
\* database answers from db.
NextStop(db) ==
    \/ StartMonitoring
    \/ Tick
    \/ \E n \in Threads : LoopCheckWithin(n, MaxStopProbes)
    \/ \E n \in Threads : Ping(n)
    \/ \E n \in Threads : Track(n, db)
    \/ \E n \in Threads : SetStatus(n)
    \/ \E n \in Threads : StoreRow(n, db)
    \/ stop_monitoring
    \/ stop_join
    \/ generate_daily_reports
    \/ generate_report(db)
    \/ cleanup_old_data(db)

SpecStop == Init /\ [][NextStop(BOOLEAN)]_vars

\* ------------------------------------------- the rows and the window
\* The monitor threads of a running engine with the row and the window
\* entry of every probe, over a working database.
NextRows ==
    \/ StartMonitoring
    \/ Tick
    \/ \E n \in Threads : LoopCheck(n)
    \/ \E n \in Threads : Ping(n)
    \/ \E n \in Threads : Track(n, {TRUE})
    \/ \E n \in Threads : SetStatus(n)
    \/ \E n \in Threads : StoreRow(n, {TRUE})

SpecRows == Init /\ [][NextRows]_vars

\* ------------------------------------ the monitors and the event loop
\* The monitor threads and the broadcast task side by side: the threads
\* run monitor_target while the event loop, on the main thread, accepts
\* dashboard connections and broadcasts.  One dashboard connects and its
\* connection stays open.
NextSnapshot ==
    \/ StartMonitoring
    \/ StopSignal
    \/ Tick
    \/ \E n \in Threads : LoopCheckWithin(n, MaxStopProbes)
    \/ \E n \in Threads : Ping(n)
    \/ \E n \in Threads : Track(n, {TRUE})
    \/ \E n \in Threads : SetStatus(n)
    \/ \E n \in Threads : StoreRow(n, {TRUE})
    \/ start_websocket_server
    \/ websocket_handler(1)
    \/ broadcast_data_check
    \/ broadcast_data_next
    \/ broadcast_data_sent
    \/ broadcast_data_sleep

SpecSnapshot == Init /\ [][NextSnapshot]_vars

\* Configurations with the alerts switched off.
TailConfigs == {c \in Configs : ~c.send_alerts}

\* The monitor threads, the broadcast task and a stop of the engine with
\* its reports and its prune, over a working database and with the alerts
\* switched off.  The clock stands still.
NextReaders ==
    \/ StartMonitoring
    \/ \E n \in Threads : LoopCheckWithin(n, MaxStopProbes)
    \/ \E n \in Threads : Ping(n)
    \/ \E n \in Threads : Track(n, {TRUE})
    \/ \E n \in Threads : SetStatus(n)
    \/ \E n \in Threads : StoreRow(n, {TRUE})
    \/ start_websocket_server
    \/ websocket_handler(1)
    \/ broadcast_data_check
    \/ broadcast_data_next
    \/ broadcast_data_sent
    \/ broadcast_data_sleep
    \/ stop_monitoring
    \/ stop_join
    \/ generate_daily_reports
    \/ generate_report({TRUE})
    \/ cleanup_old_data({TRUE})

SpecReaders == InitWith(TailConfigs) /\ [][NextReaders]_vars

\* The same with the probes of a running engine: the windows grow past
\* the tail a snapshot carries.
NextTail ==
    \/ StartMonitoring
    \/ StopSignal
    \/ \E n \in Threads : LoopCheck(n)
    \/ \E n \in Threads : Ping(n)
    \/ \E n \in Threads : Track(n, {TRUE})
    \/ \E n \in Threads : SetStatus(n)
    \/ \E n \in Threads : StoreRow(n, {TRUE})
    \/ start_websocket_server
    \/ websocket_handler(1)
    \/ broadcast_data_check
    \/ broadcast_data_next
    \/ broadcast_data_sent
    \/ broadcast_data_sleep

SpecTail == InitWith(TailConfigs) /\ [][NextTail]_vars

\* ------------------------------------------------ two monitor threads
\* Both targets are enabled and the alerts are switched on.
AlertConfigs ==
    [enabled : {[n \in TargetNames |-> TRUE]},
     latency_threshold : {Threshold},
     cooldown_seconds : {Cooldown},
     retention_days : {RetentionDays},
     max_data_points : {MaxDataPoints},
     send_alerts : {TRUE}]

\* The monitor threads of the two targets of a running engine, over a
\* working database.  The clock stands still: the cooldown of every mail
\* the transport accepted is running.
NextAlerts ==
    \/ StartMonitoring
    \/ \E n \in Threads : LoopCheck(n)
    \/ \E n \in Threads : Ping(n)
    \/ \E n \in Threads : Track(n, {TRUE})
    \/ \E n \in Threads : SetStatus(n)
    \/ \E n \in Threads : Store(n)

SpecAlerts == InitWith(AlertConfigs) /\ [][NextAlerts]_vars

\* Both targets are enabled: start_monitoring starts a thread for each.
\* The scheduler lets every thread that can take a step take it; a call of
\* ping3.ping returns for the targets of FairProbers, and may never return
\* for the others (the prober is outside the program).
FairProbers == {"B"}

InitTargets == InitWith(ReportConfigs)

\* The steps of the monitor thread of n.
ThreadStep(n) ==
    \/ LoopCheck(n)
    \/ Track(n, {TRUE})
    \/ SetStatus(n)
    \/ Store(n)

\* The clock stands still: a thread reads the clock for its own timestamps
\* only.
NextTargets ==
    \/ StartMonitoring
    \/ StopSignal
    \/ \E n \in TargetNames : ThreadStep(n)
    \/ \E n \in TargetNames : Ping(n)

SpecTargets ==
    /\ InitTargets
    /\ [][NextTargets]_vars
    /\ \A n \in TargetNames : WF_vars(ThreadStep(n))
    /\ \A n \in FairProbers : WF_vars(Ping(n))

\* ------------------------------------------- the single-target monitor
\* VisualISPMonitor on its own: its one thread and the clock.
NextIsp ==
    \/ isp_start_monitoring
    \/ check_connectivity
    \/ Tick

SpecIsp == InitIsp /\ [][NextIsp]_vars

\* ---------------------------------------------------------------- claims
\* The monitor of n is between two iterations and has processed a probe.
Boundary(n) == pc[n] \in {"loop", "exited"} /\ targets[n].total_checks > 0

RowsOf(n) == {r \in incidents : r.target_name = n}

OpenRowsOf(n) == {r \in RowsOf(n) : ~r.resolved}

\* C1: with a working EventStore, after every processed probe
\* consecutive_failures is 0 exactly when the target has no open incident:
\* current_incident_id is absent and the store holds no unresolved row of it.
C1_FailuresIffOpenIncident ==
    \A n \in Threads :
        Boundary(n) =>
            /\ targets[n].consecutive_failures = 0
                  <=> targets[n].current_incident_id = None
            /\ targets[n].consecutive_failures = 0 <=> OpenRowsOf(n) = {}

\* A second streak is running after a first one was closed.
C1_Witness ==
    \E n \in Threads :
        /\ Boundary(n)
        /\ targets[n].consecutive_failures > 0
        /\ targets[n].current_incident_id = 2
        /\ \E r \in RowsOf(n) : r.id = 1 /\ r.resolved

C3_UpIffNoFailures ==
    \A n \in Threads :
        Boundary(n) =>
            (targets[n].status = "up" <=> targets[n].consecutive_failures = 0)

\* A target is up again after a failure streak.
C3_Witness ==
    \E n \in Threads :
        /\ Boundary(n)
        /\ targets[n].status = "up"
        /\ streak[n].count = 1
        /\ ~streak[n].open

\* The classification the claim gives to a prober outcome.
ExpectedClass(o, threshold) ==
    IF o.kind # "reply" THEN "PACKET_LOSS"
    ELSE IF o.ms > threshold THEN "HIGH_LATENCY"
    ELSE "OK"

\* C4: an absent latency (timeout, error, exception) is classified
\* PACKET_LOSS, a measured latency above the threshold HIGH_LATENCY, and
\* every other measured latency, 0 and the threshold included, OK.
C4_ClassificationAsClaimed ==
    \A n \in Threads :
        pc[n] \in {"status", "store"} =>
            status[n] = ExpectedClass(outcome[n], config.latency_threshold)

\* C5: with a working EventStore every failure streak has exactly one
\* incident, created at its first failing probe, whose type is the
\* classification of that probe; no incident ever changes its type.
C5_StreakIncident ==
    \A n \in Threads :
        /\ Cardinality(RowsOf(n)) = streak[n].count
        /\ streak[n].count > 0 =>
              \E r \in RowsOf(n) :
                  /\ r.id = streak[n].id
                  /\ r.incident_type = streak[n].first

C5_TypeFixed ==
    \A r \in incidents :
        \E q \in incidents' : q.id = r.id /\ q.incident_type = r.incident_type

C5_OneIncidentPerStreak == []C5_StreakIncident /\ [][C5_TypeFixed]_vars

\* A streak opened by a high latency went on with a packet loss.
C5_Witness ==
    \E n \in Threads :
        /\ Boundary(n)
        /\ streak[n].open
        /\ streak[n].first = "HIGH_LATENCY"
        /\ streak[n].last = "PACKET_LOSS"
        /\ \E r \in RowsOf(n) :
              r.id = streak[n].id /\ r.incident_type = "HIGH_LATENCY"

\* The closed incident of the latest streak of n, if it has been closed.
ClosedRowOfStreak(n) ==
    {r \in RowsOf(n) : r.id = streak[n].id /\ r.resolved /\ ~streak[n].open}

\* C6: a closed incident's packet_loss_count is the number of packet-loss
\* probes of its streak.
C6_PacketLossCountAsClaimed ==
    \A n \in Threads :
        \A r \in ClosedRowOfStreak(n) : r.packet_loss_count = streak[n].losses

\* C7: a closed incident's max_latency is the largest latency measured by
\* the probes of its streak.
C7_MaxLatencyAsClaimed ==
    \A n \in Threads :
        \A r \in ClosedRowOfStreak(n) : r.max_latency = streak[n].max_latency

\* C8: with a working EventStore the incident of a streak is unresolved as
\* long as the streak runs and is closed by the OK probe that ends it, which
\* also resets consecutive_failures, first_failure_time and
\* current_incident_id; a closed incident is never written again.
C8_OpenUntilOk ==
    \A n \in Threads :
        streak[n].count > 0 =>
            \E r \in RowsOf(n) :
                /\ r.id = streak[n].id
                /\ IF streak[n].open
                     THEN /\ ~r.resolved
                          /\ r.end_time = None
                          /\ targets[n].current_incident_id = r.id
                          /\ targets[n].consecutive_failures > 0
                     ELSE /\ r.resolved
                          /\ r.end_time # None
                          /\ targets[n].current_incident_id = None
                          /\ targets[n].first_failure_time = None
                          /\ targets[n].consecutive_failures = 0

C8_ClosedByOkOnce ==
    \A r \in incidents :
        /\ r.resolved => r \in incidents'
        /\ ~r.resolved =>
              \/ r \in incidents'
              \/ /\ pc[r.target_name] = "track"
                 /\ status'[r.target_name] = "OK"
                 /\ \E q \in incidents' :
                       q.id = r.id /\ q.resolved /\ q.end_time = now

C8_ClosedExactlyOnce == []C8_OpenUntilOk /\ [][C8_ClosedByOkOnce]_vars

\* Failure, OK, OK: the second OK probe came after the incident was closed.
C8_Witness ==
    \E n \in Threads :
        /\ Boundary(n)
        /\ targets[n].total_checks = 3
        /\ streak[n].count = 1 /\ streak[n].len = 1 /\ ~streak[n].open
        /\ \E r \in RowsOf(n) :
              r.resolved /\ r.end_time < targets[n].last_check

\* C9 as stated: during a streak the status is the one of the probe that
\* opened it.
C9_StatusFixedInStreak ==
    \A n \in Threads :
        Boundary(n) /\ streak[n].open =>
            targets[n].status =
                IF streak[n].first = "HIGH_LATENCY" THEN "degraded" ELSE "down"

\* C9 amended: during a streak the status is the one of the latest failing
\* probe, degraded after a high latency and down after a packet loss.
C9_StatusFollowsLatestProbe ==
    \A n \in Threads :
        Boundary(n) /\ streak[n].open =>
            targets[n].status =
                IF streak[n].last = "HIGH_LATENCY" THEN "degraded" ELSE "down"

\* A streak opened by a high latency shows down after a packet loss.
C9_Witness ==
    \E n \in Threads :
        /\ Boundary(n)
        /\ streak[n].open
        /\ streak[n].first = "HIGH_LATENCY"
        /\ streak[n].last = "PACKET_LOSS"
        /\ targets[n].status = "down"

\* The step of n is a notify with subject prefix p: the alert of a failing
\* branch, or the RECOVERED alert of the OK branch after a failure.
NotifyStep(n, p) ==
    \/ /\ pc[n] = "status" /\ pc'[n] = "store"
       /\ status[n] # "OK"
       /\ p = AlertPrefix(status[n])
    \/ /\ pc[n] = "track" /\ pc'[n] = "status"
       /\ status'[n] = "OK"
       /\ targets[n].consecutive_failures > 0
       /\ p = RECOVERED_SUBJECT

\* The times at which the transport accepted a mail of key <<n, p>>.
DeliveredAt(n, p) == {d[2] : d \in {e \in delivered : e[1] = <<n, p>>}}

\* C10: once a mail of a (target, alert key) was accepted at time t, a
\* notify of that key makes no transport call while now - t < cooldown for
\* the latest such t, and makes exactly one when now - t >= cooldown.
C10_CooldownStep ==
    \A n \in Threads, p \in Prefixes :
        NotifyStep(n, p) /\ DeliveredAt(n, p) # {} =>
            LET t == CHOOSE x \in DeliveredAt(n, p) :
                        \A y \in DeliveredAt(n, p) : y <= x
            IN IF now - t < config.cooldown_seconds
                 THEN smtp_calls' = smtp_calls /\ delivered' = delivered
                 ELSE smtp_calls' = smtp_calls + 1

C10_Cooldown == [][C10_CooldownStep]_vars

\* Three packet losses at times 0, 1 and 2: the first and the third are
\* mailed, the second is suppressed.
C10_Witness ==
    \E n \in Threads :
        /\ Boundary(n)
        /\ targets[n].total_checks = 3
        /\ streak[n].len = 3 /\ streak[n].losses = 3
        /\ DeliveredAt(n, PACKET_LOSS_SUBJECT) = {0, Cooldown}
        /\ smtp_calls = 2

\* C11: a send the transport refuses leaves last_email_sent of the target
\* unchanged, so the next notify of that key calls the transport again
\* without waiting for the cooldown; an entry of last_email_sent changes only
\* in a step in which the transport accepts a mail of that key, and becomes
\* the time of that mail.
C11_LastSentStep ==
    \A n \in Threads :
        /\ (smtp_calls' = smtp_calls + 1 /\ delivered' = delivered)
              => targets'[n].last_email_sent = targets[n].last_email_sent
        /\ \A k \in EmailKeys :
              Get(targets'[n].last_email_sent, k)
                    # Get(targets[n].last_email_sent, k)
                => /\ <<k, now>> \notin delivered
                   /\ delivered' = delivered \cup {<<k, now>>}
                   /\ Get(targets'[n].last_email_sent, k) = now
        /\ \A p \in Prefixes :
              (NotifyStep(n, p) /\ config.send_alerts
                   /\ DeliveredAt(n, p) = {})
                => smtp_calls' = smtp_calls + 1

C11_LastSentOnlyOnSuccess == [][C11_LastSentStep]_vars

\* Two packet losses at the same instant: the transport refused the mail of
\* the first, and the notify of the second called it again and was accepted.
C11_Witness ==
    \E n \in Threads :
        /\ Boundary(n)
        /\ now = 0
        /\ streak[n].len = 2 /\ streak[n].losses = 2
        /\ smtp_calls = 2
        /\ DeliveredAt(n, PACKET_LOSS_SUBJECT) = {0}
        /\ Get(targets[n].last_email_sent, <<n, PACKET_LOSS_SUBJECT>>) = 0

\* The broadcast task is between two cycles.
BetweenCycles == bpc \in {"sleep", "check"}

\* C12: a connection whose push failed or found it closed during a broadcast
\* cycle is not in websocket_clients when that cycle is over, up to and
\* including the moment the next cycle starts.
C12_FailedPushUnsubscribed ==
    BetweenCycles => websocket_clients \cap disconnected_clients = {}

\* A cycle is about to start for a remaining subscriber after a cycle in
\* which the push to another one failed.
C12_Witness ==
    /\ bpc = "check" /\ is_running
    /\ websocket_clients # {}
    /\ disconnected_clients # {}
    /\ \E w \in disconnected_clients : hpc[w] = "wait_closed"

\* C13: in a cycle in which a push failed or found its connection closed,
\* every connection of the cycle's set that is still subscribed when the
\* cycle is over was handed the payload of the cycle.
C13_FailedPushKeepsCycle ==
    (bpc \in {"sleep", "check", "done", "dead"} /\ disconnected_clients # {})
        => (it_base \cap websocket_clients) \ it_seen = {}

\* The rows of daily_reports of a target and day.
ReportsOf(reports, n, d) ==
    {r \in reports : r.target_name = n /\ r.report_date = d}

\* C14: daily_reports holds at most one row of a (target, date), and a pass
\* that reports again on a (target, date) this run has reported on, with no
\* probe or incident row added in between (none is, while the monitors
\* sleep), leaves a row with the same values.
C14_OneRowPerKey ==
    \A r, q \in daily_reports :
        (r.target_name = q.target_name /\ r.report_date = q.report_date)
            => r = q

C14_SecondPassStep ==
    \A n \in Threads :
        (/\ spc = "report_loop" /\ todo # <<>> /\ Head(todo) = n
         /\ todo' = Tail(todo)
         /\ <<n, report_date>> \in reported)
            => {ReportValues(r) : r \in ReportsOf(daily_reports', n, report_date)}
                 = {ReportValues(r) : r \in ReportsOf(daily_reports, n, report_date)}

C14_Idempotent == []C14_OneRowPerKey /\ [][C14_SecondPassStep]_vars

\* The second stop has reported on the one (target, date) the first stop
\* reported on: the row was replaced twice.
C14_Witness ==
    /\ stops = 2 /\ spc = "stopped"
    /\ \E n \in Threads :
         /\ reported = {<<n, report_date>>}
         /\ \E r \in ReportsOf(daily_reports, n, report_date) :
               r.id = OldId(TargetList[Len(TargetList)], Day(StartTime)) + 2

\* The step is cleanup_old_data.
CleanupStep == spc = "cleanup" /\ spc' = "stopped"

\* C15: a cleanup that completes, with cutoff c, leaves no probe row with
\* a timestamp before c, no incident with a start before c and no daily
\* report of a day before the day of c; every row at or after c is still
\* there, and no row is changed or added.
C15_CleanupStep ==
    LET c == now - config.retention_days * DayLength
    IN (CleanupStep /\ ~deleted'.error) =>
          /\ ping_results' = {r \in ping_results : r.timestamp >= c}
          /\ incidents' = {r \in incidents : r.start_time >= c}
          /\ daily_reports' = {r \in daily_reports : r.report_date >= Day(c)}

C15_PruneByCutoff == [][C15_CleanupStep]_vars

\* A cleanup deleted rows of every table and kept rows of every table,
\* among them a probe at the cutoff itself.
C15_Witness ==
    /\ spc = "stopped" /\ ~deleted.error
    /\ deleted.pings > 0 /\ deleted.incidents > 0 /\ deleted.reports > 0
    /\ incidents # {} /\ daily_reports # {}
    /\ \E r \in ping_results :
          r.timestamp = now - config.retention_days * DayLength

\* C20: when the report of one target fails in a pass, the pass still
\* computes and writes the report of every other target that has probes on
\* the day of the pass.
C20_FailureKeepsPass ==
    (spc = "cleanup" /\ report_error # "none") =>
        \A n \in Threads \ {report_error} :
            ping_stats(ping_results, n, report_date).total_checks > 0 =>
                \E r \in ReportsOf(daily_reports, n, report_date) :
                    ReportValues(r) = daily_report(ping_results, incidents, n,
                                                   report_date)

\* C19: once the report pass of a stop has started, no monitor thread adds
\* a row to ping_results or adds or changes a row of incidents.
C19_NoWriteAfterPassStep ==
    (spc \in {"report_loop", "cleanup", "stopped"} /\ pc' # pc)
        => ping_results' = ping_results /\ incidents' = incidents

C19_NoWriteAfterPass == [][C19_NoWriteAfterPassStep]_vars

\* C17: after every processed probe consecutive_failures, status and the
\* presence of first_failure_time are what the classes of the probes so
\* far give, whichever of the database calls failed: the length of the
\* running streak (0 after an OK probe), the status of the latest probe,
\* and a first failure time exactly within a streak.
C17_MemoryIgnoresStore ==
    \A n \in Threads :
        Boundary(n) =>
            /\ targets[n].consecutive_failures
                  = IF streak[n].open THEN streak[n].len ELSE 0
            /\ targets[n].status
                  = IF streak[n].open THEN StatusOf(streak[n].last) ELSE "up"
            /\ targets[n].first_failure_time # None <=> streak[n].open

\* The INSERT of start_incident failed at the first of two failing probes:
\* the streak is counted and timed though it has no incident.
C17_Witness ==
    \E n \in Threads :
        /\ Boundary(n)
        /\ targets[n].consecutive_failures = 2
        /\ targets[n].first_failure_time # None
        /\ targets[n].current_incident_id = None
        /\ OpenRowsOf(n) = {}

\* C16: a probe that timed out, failed or raised is processed as a packet
\* loss, a monitor thread ends only when is_running is cleared, and
\* whatever the prober, the database and the mail transport did in an
\* iteration, its next step can be taken, up to the loop test that starts
\* the next iteration.
C16_FailedProbeIsLoss ==
    \A n \in Threads :
        /\ (pc[n] \in {"status", "store"}
              /\ outcome[n].kind \in {"timeout", "error", "exception"})
             => /\ status[n] = "PACKET_LOSS"
                /\ targets[n].consecutive_failures > 0
        /\ pc[n] = "exited" => ~is_running
        /\ pc[n] = "ping" => ENABLED Ping(n)
        /\ pc[n] = "track" => ENABLED Track(n, BOOLEAN)
        /\ pc[n] = "status" => ENABLED SetStatus(n)
        /\ pc[n] = "store" => ENABLED Store(n)
        /\ (pc[n] = "loop" /\ is_running /\ ProbesStarted < MaxProbes)
             => ENABLED (LoopCheck(n) /\ pc'[n] = "ping")

\* The third probe of a streak raised and was counted as the third loss,
\* with the thread on its way to the next loop test.
C16_Witness ==
    \E n \in Threads :
        /\ pc[n] = "store" /\ is_running
        /\ outcome[n].kind = "exception"
        /\ targets[n].total_checks = 3
        /\ streak[n].losses = 3

\* The steps of one iteration, in their order.
IterationOrder ==
    {<<"new", "loop">>, <<"loop", "ping">>, <<"loop", "exited">>,
     <<"ping", "track">>, <<"track", "status">>, <<"status", "store">>,
     <<"store", "loop">>}

\* C18: a target has one monitor thread, which takes the steps of an
\* iteration in their order: a probe is counted in the step that ends its
\* ping, and the next probe starts only when the result of the previous one
\* is stored and its locals are dropped.
C18_SequentialStep ==
    \A n \in Threads :
        /\ pc'[n] # pc[n] => <<pc[n], pc'[n]>> \in IterationOrder
        /\ targets'[n].total_checks # targets[n].total_checks
             => /\ pc[n] = "ping" /\ pc'[n] = "track"
                /\ targets'[n].total_checks = targets[n].total_checks + 1
        /\ (pc'[n] = "ping" /\ pc[n] # "ping")
             => /\ outcome[n] = NoOutcome
                /\ latency[n] = None
                /\ status[n] = "none"

C18_OneProbeAtATime ==
    [](DOMAIN pc = DOMAIN targets) /\ [][C18_SequentialStep]_vars

\* The third probe of a target is in flight after two were processed.
C18_Witness ==
    \E n \in Threads :
        /\ pc[n] = "ping"
        /\ targets[n].total_checks = 2
        /\ outcome[n] = NoOutcome

\* The status, consecutive_failures and total_checks of a target dictionary
\* or of a target's entry in a snapshot.
TripleOf(td) == <<td.status, td.consecutive_failures, td.total_checks>>

\* The triple the target n holds at the boundary that ends the iteration it
\* is in (the values are fixed once the ping has returned), or holds now
\* when it is between two iterations or still in the ping.
BoundaryTriple(n) ==
    LET td == targets[n]
    IN IF pc[n] = "track"
         THEN LET cls == Classify(latency[n], config.latency_threshold)
              IN <<StatusOf(cls),
                   IF cls = "OK" THEN 0 ELSE td.consecutive_failures + 1,
                   td.total_checks>>
         ELSE IF pc[n] = "status"
           THEN <<StatusOf(status[n]), td.consecutive_failures, td.total_checks>>
           ELSE TripleOf(td)

\* C21: the status, consecutive_failures and total_checks a snapshot
\* reports of a target are the values the target holds together at an
\* iteration boundary (total_checks names the boundary), never values read
\* in the middle of a probe's update, such as consecutive_failures > 0
\* with status up.
C21_SnapshotStep ==
    (bpc = "check" /\ bpc' = "next") =>
        \A n \in DOMAIN dashboard_data' :
            /\ TripleOf(dashboard_data'[n]) = BoundaryTriple(n)
            /\ ~(/\ dashboard_data'[n].consecutive_failures > 0
                 /\ dashboard_data'[n].status = "up")

C21_ConsistentSnapshot == [][C21_SnapshotStep]_vars

\* The subscribers of the running cycle the payload has not been handed to.
Waiting == (websocket_clients \cap it_base) \ it_seen

\* C22: a subscriber that does not take its push does not hold back the
\* others: while the push to it is pending, the broadcast task can go on
\* to the next subscriber that waits for the payload of the cycle.
C22_SlowSubscriberAlone ==
    (bpc = "sending" /\ Waiting # {}) => ENABLED broadcast_data_next

\* An aggregation pass is running.
PassRuns == spc \in {"report_loop", "cleanup"}

\* C23: an engine that runs from time 0 runs an aggregation pass while it
\* is running, once the report interval has elapsed (the clock does not
\* stop), unless it is stopped first.
C23_PassEveryInterval ==
    (is_running /\ now = 0) ~> ((is_running /\ PassRuns) \/ ~is_running)

Stopping(n) == ~is_running /\ pc[n] # "new"

\* C25: once the stop signal is set a monitor thread starts no probe: the
\* only probe it still makes is the one whose loop test had passed, which
\* is counted and processed to its end; the thread leaves its loop only at
\* the loop test, the signal itself moves no thread, and a thread whose
\* ping has returned reaches the end of its loop.
C25_CancelStep ==
    \A n \in DOMAIN pc :
        /\ (~is_running /\ pc'[n] = "ping") => pc[n] = "ping"
        /\ (~is_running /\ targets'[n].total_checks # targets[n].total_checks)
              => pc[n] = "ping" /\ pc'[n] = "track"
        /\ (pc'[n] = "exited" /\ pc[n] # "exited")
              => pc[n] = "loop" /\ ~is_running
        /\ (is_running /\ ~is_running')
              => /\ pc' = pc /\ targets' = targets
                 /\ outcome' = outcome /\ latency' = latency

C25_CooperativeStop ==
    /\ [][C25_CancelStep]_vars
    /\ \A n \in TargetNames :
          (Stopping(n) /\ pc[n] # "ping") ~> (pc[n] = "exited")
    /\ \A n \in FairProbers : Stopping(n) ~> (pc[n] = "exited")

\* The signal came while a probe was in flight: the probe was processed as
\* a loss and the thread has left its loop with that one probe counted.
C25_Witness ==
    \E n \in DOMAIN pc :
        /\ pc[n] = "exited"
        /\ targets[n].total_checks = 1
        /\ targets[n].status = "down"
        /\ \E m \in DOMAIN pc : pc[m] = "ping"

\* The runtime state of target n: its dictionary, the position of its
\* thread and the locals of its running iteration.
RuntimeOf(n) == <<targets[n], pc[n], outcome[n], latency[n], status[n]>>

\* C26: a step of the running monitor thread of one target leaves the runtime
\* state of every other target as it is, and a target whose ping returns
\* completes every probe it starts, also while the ping of another target
\* never returns.
C26_IndependentStep ==
    \A n \in DOMAIN pc :
        (pc[n] # "new" /\ pc'[n] # pc[n]) =>
            \A m \in DOMAIN pc \ {n} :
                /\ RuntimeOf(m)' = RuntimeOf(m)
                /\ streak'[m] = streak[m]

C26_TargetsIndependent ==
    /\ [][C26_IndependentStep]_vars
    /\ \A n \in FairProbers :
          (pc[n] \in {"ping", "track", "status", "store"}) ~> (pc[n] = "loop")

\* The first ping of A has not returned, and B has completed two probes,
\* the second of them a failure, since A started it.
C26_Witness ==
    /\ pc["A"] = "ping" /\ targets["A"].total_checks = 0
    /\ pc["B"] = "loop" /\ targets["B"].total_checks = 2
    /\ targets["B"].consecutive_failures = 1
    /\ is_running

\* C27: the targets that have a dictionary and a monitor thread are the
\* enabled ones, and start_monitoring starts the threads of all of them; a
\* disabled target has no dictionary and no thread, no row of ping_results
\* or incidents, and no entry in a snapshot.
C27_EnabledOnly ==
    /\ DOMAIN targets = EnabledTargets(config)
    /\ DOMAIN pc = EnabledTargets(config)
    /\ is_running => \A n \in EnabledTargets(config) : pc[n] # "new"
    /\ \A r \in ping_results \cup incidents : config.enabled[r.target_name]
    /\ bpc \in {"next", "sending"}
          => DOMAIN dashboard_data = EnabledTargets(config)
    /\ \A n \in DOMAIN dashboard_data : dashboard_data[n].name = n

\* A snapshot is being pushed that shows the enabled target after its
\* first probe, a failure that is stored; the other target is disabled.
C27_Witness ==
    /\ bpc = "sending"
    /\ TargetNames \ EnabledTargets(config) # {}
    /\ \E n \in DOMAIN dashboard_data :
          /\ dashboard_data[n].total_checks = 1
          /\ \E r \in ping_results : r.target_name = n
          /\ \E r \in incidents : r.target_name = n

\* C28: consecutive_failures is the number of failing probes (HIGH_LATENCY
\* or PACKET_LOSS, as monitor_target classifies them) since the last OK
\* probe of the target or since the start.  The first failing probe makes
\* it 1 and sets first_failure_time; every further one adds 1 and leaves
\* first_failure_time and current_incident_id as they are; an OK probe
\* makes it 0; no other step changes the three.
C28_CountIsStreak ==
    \A n \in Threads :
        targets[n].consecutive_failures
            = IF streak[n].open THEN streak[n].len ELSE 0

C28_CountStep ==
    \A n \in Threads :
        LET td == targets[n]
            tn == targets'[n]
        IN IF pc[n] = "track" /\ pc'[n] = "status"
             THEN IF status'[n] = "OK"
                    THEN tn.consecutive_failures = 0
                    ELSE IF td.consecutive_failures = 0
                      THEN /\ tn.consecutive_failures = 1
                           /\ tn.first_failure_time = now
                      ELSE /\ tn.consecutive_failures
                                = td.consecutive_failures + 1
                           /\ tn.first_failure_time = td.first_failure_time
                           /\ tn.current_incident_id = td.current_incident_id
             ELSE /\ tn.consecutive_failures = td.consecutive_failures
                  /\ tn.first_failure_time = td.first_failure_time
                  /\ tn.current_incident_id = td.current_incident_id

C28_ConsecutiveFailures == []C28_CountIsStreak /\ [][C28_CountStep]_vars

\* The second failing probe of a streak is counted, at a later time than
\* the first, whose time first_failure_time still holds.
C28_Witness ==
    \E n \in Threads :
        /\ pc[n] = "status"
        /\ targets[n].consecutive_failures = 2
        /\ streak[n].len = 2
        /\ targets[n].first_failure_time = 0
        /\ targets[n].last_check > 0

\* The rows of ping_results of target n.
PingRowsOf(rows, n) == {r \in rows : r.target_name = n}

\* C29: with a working store the rows of ping_results of a target are as
\* many as its total_checks at every iteration boundary (one less while
\* the probe that is counted is still being processed), and the mail
\* transport was called at most once for every probe counted.
C29_RowsAreChecks ==
    /\ \A n \in Threads :
          Cardinality(PingRowsOf(ping_results, n))
              = IF pc[n] \in {"track", "status", "store"}
                  THEN targets[n].total_checks - 1
                  ELSE targets[n].total_checks
    /\ smtp_calls <= SumChecks(Threads)

\* Every iteration appends exactly one row, in its last step and with the
\* latency and the class of its probe, and calls send_email_alert in at
\* most one of its steps: after an OK probe in the step that ends the
\* streak, after a failing probe in the step that sets the status.
C29_IterationStep ==
    /\ \A n \in Threads :
          LET old == PingRowsOf(ping_results, n)
              new == PingRowsOf(ping_results', n)
          IN IF pc[n] = "store" /\ pc'[n] = "loop"
               THEN \E r \in new \ old :
                       /\ new = old \cup {r}
                       /\ r.latency = latency[n]
                       /\ r.status = status[n]
                       /\ r.timestamp = now
                       /\ \A q \in ping_results : q.id < r.id
               ELSE new = old
    /\ smtp_calls' \in {smtp_calls, smtp_calls + 1}
    /\ smtp_calls' # smtp_calls =>
          \E n \in Threads, p \in Prefixes :
              /\ NotifyStep(n, p)
              /\ p = RECOVERED_SUBJECT <=> status'[n] = "OK"

C29_OneRowPerIteration == []C29_RowsAreChecks /\ [][C29_IterationStep]_vars

\* Three probes at one instant are stored in three rows: a loss, which
\* was mailed, and two replies, the first of which was mailed as recovery.
C29_Witness ==
    \E n \in Threads :
        /\ Boundary(n) /\ now = 0
        /\ targets[n].total_checks = 3
        /\ Cardinality(PingRowsOf(ping_results, n)) = 3
        /\ \E r \in ping_results : r.id = 1 /\ r.packet_loss = 1
        /\ smtp_calls = 2
        /\ targets[n].status = "up"

\* The i-th row of a set of rows in the order of their ids, from 1.
RowAt(rows, i) ==
    CHOOSE r \in rows : Cardinality({q \in rows : q.id < r.id}) = i - 1

\* The probes of target n that are processed to their end.
Completed(n) ==
    IF pc[n] \in {"track", "status", "store"}
      THEN targets[n].total_checks - 1
      ELSE targets[n].total_checks

Min(a, b) == IF a < b THEN a ELSE b

\* C30: recent_data of a target never holds more than max_data_points
\* entries; it holds the latest min(max_data_points, completed probes)
\* probes of the target in their order, which is the order of their rows
\* in ping_results.
C30_WindowIsTail ==
    \A n \in Threads :
        LET w == targets[n].recent_data
            rows == PingRowsOf(ping_results, n)
            k == Completed(n)
        IN /\ Len(w) <= config.max_data_points
           /\ Len(w) = Min(config.max_data_points, k)
           /\ \A i \in 1..Len(w) :
                 LET r == RowAt(rows, k - Len(w) + i)
                 IN /\ w[i].timestamp = r.timestamp
                    /\ w[i].latency = r.latency
                    /\ w[i].status = r.status

\* An append to a full window evicts exactly its oldest entry.
C30_EvictStep ==
    \A n \in Threads :
        LET w == targets[n].recent_data
            v == targets'[n].recent_data
        IN IF pc[n] = "store" /\ pc'[n] = "loop"
             THEN /\ v[Len(v)] = data_point(now, latency[n], status[n],
                                            targets[n].consecutive_failures)
                  /\ Len(w) = config.max_data_points =>
                        /\ Len(v) = Len(w)
                        /\ \A i \in 1..(Len(w) - 1) : v[i] = w[i + 1]
             ELSE v = w

C30_BoundedWindow == []C30_WindowIsTail /\ [][C30_EvictStep]_vars

\* One probe more than the window takes: the loss that came first is
\* evicted and the window holds the replies that followed.
C30_Witness ==
    \E n \in Threads :
        LET w == targets[n].recent_data
        IN /\ Boundary(n)
           /\ targets[n].total_checks = MaxDataPoints + 1
           /\ Len(w) = MaxDataPoints
           /\ RowAt(PingRowsOf(ping_results, n), 1).latency = None
           /\ \A i \in 1..Len(w) : w[i].latency # None

\* C31: the recent_data a snapshot carries of a target has at most
\* TailLength entries; it is the last min(TailLength, window size) entries
\* of the target's window at the moment of the snapshot, in window order.
C31_TailStep ==
    (bpc = "check" /\ bpc' = "next") =>
        \A n \in DOMAIN dashboard_data' :
            LET w == targets[n].recent_data
                t == dashboard_data'[n].recent_data
            IN /\ Len(t) = Min(TailLength, Len(w))
               /\ \A i \in 1..Len(t) : t[i] = w[Len(w) - Len(t) + i]

C31_TailBounded ==
    \A n \in DOMAIN dashboard_data :
        Len(dashboard_data[n].recent_data) <= TailLength

C31_SnapshotTail == []C31_TailBounded /\ [][C31_TailStep]_vars

\* A snapshot of a window that is longer than the tail and whose oldest
\* and newest entries differ: the snapshot carries the newest.
C31_Witness ==
    /\ bpc = "next"
    /\ \E n \in DOMAIN dashboard_data :
         LET w == targets[n].recent_data
             t == dashboard_data[n].recent_data
         IN /\ Len(w) > TailLength
            /\ Len(t) = TailLength
            /\ w[1] # w[Len(w)]
            /\ t[Len(t)] = w[Len(w)]

\* The transport accepted a mail of key <<n, p>> less than the cooldown ago.
InCooldown(n, p) ==
    \E t \in DeliveredAt(n, p) : now - t < config.cooldown_seconds

\* C32: the last-sent times are kept per (target, subject prefix): a step
\* changes the time of the pair it notifies at most, and a notify of a pair
\* no mail of which was accepted within the cooldown calls the transport,
\* whatever was sent for another target or under another prefix.
C32_PairStep ==
    \A n \in Threads :
        /\ DOMAIN targets'[n].last_email_sent
              \subseteq {<<n, p>> : p \in Prefixes}
        /\ \A p \in Prefixes :
              /\ Get(targets'[n].last_email_sent, <<n, p>>)
                      # Get(targets[n].last_email_sent, <<n, p>>)
                   => NotifyStep(n, p)
              /\ (NotifyStep(n, p) /\ config.send_alerts /\ ~InCooldown(n, p))
                   => smtp_calls' = smtp_calls + 1

C32_CooldownPerPair == [][C32_PairStep]_vars

\* A packet loss of each target and the recovery of one of them, all
\* mailed at the same instant.
C32_Witness ==
    \E n \in Threads, m \in Threads :
        /\ n # m
        /\ 0 \in DeliveredAt(n, PACKET_LOSS_SUBJECT)
        /\ 0 \in DeliveredAt(n, RECOVERED_SUBJECT)
        /\ 0 \in DeliveredAt(m, PACKET_LOSS_SUBJECT)
        /\ Get(targets[n].last_email_sent, <<n, RECOVERED_SUBJECT>>) = 0
        /\ Get(targets[m].last_email_sent, <<m, PACKET_LOSS_SUBJECT>>) = 0

\* C37: at every iteration boundary avg_latency is the mean of the
\* latencies the window holds, 0 when it holds none, and packet_loss_rate
\* is 100 times the share of the entries without a latency.
C37_AveragesOfWindow ==
    \A n \in Threads :
        Boundary(n) /\ targets[n].recent_data # <<>> =>
            LET w == targets[n].recent_data
                present == {i \in 1..Len(w) : w[i].latency # None}
                total == SumSeq([i \in 1..Len(w) |->
                                   IF i \in present THEN w[i].latency ELSE 0])
                k == Cardinality(present)
            IN /\ targets[n].avg_latency.num * (IF k = 0 THEN 1 ELSE k)
                    = total * targets[n].avg_latency.den
               /\ targets[n].packet_loss_rate.num * Len(w)
                    = (Len(w) - k) * 100 * targets[n].packet_loss_rate.den

\* The runtime state of a target the monitor thread keeps.
MonitorState(td) ==
    <<td.consecutive_failures, td.status, td.total_checks,
      td.first_failure_time, td.current_incident_id, td.recent_data,
      td.avg_latency, td.packet_loss_rate>>

\* The step is one of the broadcast task, of generate_daily_reports or of
\* cleanup_old_data.
ReaderStep ==
    \/ bpc' # bpc
    \/ /\ spc \in {"reports", "report_loop", "cleanup"}
       /\ <<spc, todo>>' # <<spc, todo>>

\* C33: a step of the broadcast task, of the aggregation pass or of the
\* prune leaves the runtime state of every target as it was.
C33_ReaderLeavesState ==
    ReaderStep =>
        /\ DOMAIN targets' = DOMAIN targets
        /\ \A n \in DOMAIN targets :
              MonitorState(targets'[n]) = MonitorState(targets[n])

C33_ReadersNeverMutate == [][C33_ReaderLeavesState]_vars

\* A target with a probe in its window was broadcast, reported on and
\* pruned around.
C33_Witness ==
    /\ spc = "stopped"
    /\ reported # {}
    /\ \E n \in DOMAIN dashboard_data :
         /\ dashboard_data[n].total_checks > 0
         /\ dashboard_data[n].recent_data # <<>>
         /\ targets[n].recent_data # <<>>

\* C34: while the engine runs the broadcast task has not ended, whatever
\* connections were subscribed or unsubscribed during its pushes.
C34_LoopSurvivesSubscribers == is_running => bpc # "dead"

\* C35: websocket_handler's unsubscribe of a connection the broadcast task
\* has already dropped ends without an error.
C35_SecondRemovalSafe ==
    \A w \in Sockets :
        (hpc[w] \in {"returned", "KeyError"} /\ w \in disconnected_clients)
            => hpc[w] = "returned"

\* C36: table incidents never holds two unresolved rows of one target,
\* whatever database calls fail.
C36_OneUnresolvedRow ==
    \A n \in Threads : Cardinality(OpenRowsOf(n)) <= 1

\* The subject prefix that goes with a classification.
CategoryOf(cls) ==
    IF cls = "PACKET_LOSS" THEN PACKET_LOSS_SUBJECT
    ELSE IF cls = "HIGH_LATENCY" THEN HIGH_LATENCY_SUBJECT
    ELSE RECOVERED_SUBJECT

\* What a notify of key <<n, p>> does to the transport in this step: one
\* call unless the alerts are off or the key is in its cooldown, and a mail
\* of that key at most.
AttemptMade(n, p) ==
    /\ smtp_calls' = IF config.send_alerts /\ ~InCooldown(n, p)
                       THEN smtp_calls + 1 ELSE smtp_calls
    /\ delivered' \ delivered \subseteq {<<<<n, p>>, now>>}
    /\ smtp_calls' = smtp_calls => delivered' = delivered

NoAttempt == smtp_calls' = smtp_calls /\ delivered' = delivered

\* C38: the alerts follow the probes.  The iteration of a failing probe
\* makes one notify of the probe's category, in its status step, whether
\* or not the probe is the first of its streak; the iteration of an OK
\* probe makes one RECOVERED notify, in its track step, exactly when
\* consecutive_failures was above 0, and resets the streak fields whatever
\* became of that notify; no other step touches the transport.
C38_AttemptStep ==
    \A n \in Threads :
        LET cls == Classify(latency[n], config.latency_threshold)
        IN IF pc[n] = "track" /\ pc'[n] = "status"
             THEN IF cls = "OK"
                    THEN /\ IF targets[n].consecutive_failures > 0
                               THEN AttemptMade(n, RECOVERED_SUBJECT)
                               ELSE NoAttempt
                         /\ targets'[n].consecutive_failures = 0
                         /\ targets'[n].first_failure_time = None
                         /\ targets'[n].current_incident_id = None
                    ELSE NoAttempt
             ELSE IF pc[n] = "status" /\ pc'[n] = "store"
               THEN IF cls = "OK" THEN NoAttempt
                    ELSE AttemptMade(n, CategoryOf(cls))
               ELSE pc'[n] # pc[n] => NoAttempt

C38_AlertsFollowProbes == [][C38_AttemptStep]_vars

\* A streak of a high latency and a packet loss and the OK probe that ends
\* it, all at one instant: each of the three was mailed.
C38_Witness ==
    \E n \in Threads :
        /\ Boundary(n)
        /\ targets[n].total_checks = 3
        /\ targets[n].consecutive_failures = 0
        /\ streak[n].len = 2
        /\ 0 \in DeliveredAt(n, HIGH_LATENCY_SUBJECT)
        /\ 0 \in DeliveredAt(n, PACKET_LOSS_SUBJECT)
        /\ 0 \in DeliveredAt(n, RECOVERED_SUBJECT)
        /\ smtp_calls = 3

\* The times at which the transport of VisualISPMonitor accepted a mail.
IspAccepted == {d[2] : d \in isp_monitor.delivered}

\* C39: in VisualISPMonitor the cooldown is one for all subjects: a call
\* of send_email made less than cooldown_seconds after the transport
\* accepted any mail returns False, does not call the transport and leaves
\* last_email_sent as it was, whatever its subject.
C39_GlobalCooldownStep ==
    (/\ isp_monitor'.calls = isp_monitor.calls + 1
     /\ \E t \in IspAccepted :
           now - t < isp_monitor.config.cooldown_seconds)
        => /\ isp_monitor'.result = "False"
           /\ isp_monitor'.smtp_calls = isp_monitor.smtp_calls
           /\ isp_monitor'.delivered = isp_monitor.delivered
           /\ isp_monitor'.last_email_sent = isp_monitor.last_email_sent

====
